---- MODULE Spec2Model ----
(***************************************************************************)
(* State-machine model of squashterm's download orchestration and library  *)
(* synchronization engine (src/server).                                    *)
(*                                                                         *)
(*   SpecQueue    : one ThreadPoolDownloadQueue batch (download_queue.py), *)
(*                  driven by either caller of the queue; the pool threads *)
(*                  interleave the load and the store of each `+= 1`.      *)
(*   SpecQueueGIL : the same batch with indivisible counter increments.    *)
(*   SpecSync     : the auto-sync scheduler thread and the manual sync     *)
(*                  endpoint of app.py, sharing AUTO_SYNC_LOCK and the     *)
(*                  whole-document library store.                          *)
(*   SpecDue      : should_auto_sync_playlist applied to one playlist      *)
(*                  record and one value of now.                          *)
(*   SpecPass     : one sync_playlist_with_remote call, from its load to   *)
(*                  its return or raise, against a listed collection.      *)
(*   SpecMerge    : store_downloaded_tracks calls in sequence, one loop    *)
(*                  iteration per step, on the track list of the document. *)
(*   SpecAppend   : append_tracks_to_playlist calls in sequence on one     *)
(*                  playlist's track_ids.                                  *)
(*   SpecIngest   : one ingestion (store_downloaded_tracks, then         *)
(*                  append_tracks_to_playlist) next to delete requests.    *)
(*   SpecStream   : one event stream: _iter_ytdlp_events, the batch        *)
(*                  generators of app.py and library_service.py, and the   *)
(*                  event_generator wrappers of the import endpoints.      *)
(*   SpecStreamFair : SpecStream with a fair generator and fair workers.   *)
(*   SpecClassify : is_single_video_url and the classification of the      *)
(*                  batch import endpoint on one URL.                      *)
(*   SpecNormalize : normalize_source_url applied twice to one URL string. *)
(*   SpecUpdate   : update_playlist on a document with one playlist.       *)
(*   SpecResolve  : the URL of one batch unit in both queue backends.      *)
(*   SpecEdit     : a sync pass next to an update_playlist and a           *)
(*                  delete_track request, which take no lock.              *)
(*   SpecTick     : the due set of one tick over stored last_run values.   *)
(*   SpecRedis    : the worker loop of the Redis queue on queued tasks.    *)
(*   SpecPool     : the pool workers of one batch writing the document.    *)
(*   SpecAgain    : two sync passes in a row against one listing.          *)
(***************************************************************************)
EXTENDS Integers, Sequences, FiniteSets, TLC

(***************************************************************************)
(* Bounds of the model.                                                    *)
(***************************************************************************)
\* number of entries of the batch (len(entries))
NumEntries == 3
\* max_workers handed to ThreadPoolExecutor (batch_size / concurrency)
MaxWorkers == 2

\* number of playlists in the library document
NumPlaylists == 2
\* number of requests to the manual sync endpoint (one thread each)
NumManual == 2
\* number of scheduler ticks (the clock counts minutes, one per poll)
MaxTime == 1
\* auto_sync_interval_minutes of the playlists of the initial document
IntervalMinutes == 1

\* largest timestamp (minutes) of the due predicate's inputs
MaxDueTime == 32
\* number of distinct remote items (video ids) of a sync pass
NumVideos == 3
\* largest number of entries the remote collection lists
MaxRemote == 3
\* number of distinct extractor ids among the ingested records
NumItems == 1
\* largest number of records (infos) handed to one ingestion
MaxInfos == 2

\* Track ids that ingestions add to a playlist.
NumIds == 3

\* Stored tracks (one per record) of one ingestion into a playlist.
MaxGiven == 3

\* Rewrites of the document by other handlers while one ingestion runs.
MaxOther == 1

\* Largest number of entries the collection of a batch stream lists.
NumBatch == 2

\* Largest number of characters of the item id of a URL to normalize (a
\* percent-encoded character counts as two: the sign and its code).
MaxIdLen == 3

\* Number of tasks in the Redis list when the worker starts.
NumTasks == 2

\* Python's None: in a field that otherwise holds an integer (a playlist
\* id, a thread, a time, an interval), in a flag, and for an absent document.
None == 0 - 1
NoneFlag == "None"
NoDoc == <<>>

Entries == 0 .. (NumEntries - 1)

\* The callers of the queue:
\*  "app"     app._batch_download_playlist: download_func is
\*            _download_single_track_from_url, which raises on failure; the
\*            callback only bumps two nonlocal integers and never raises.
\*  "library" library_service.batch_download_playlist: download_func is
\*            download_single, which catches every exception and returns
\*            {"success": False, ...}; the callback is a generator function,
\*            so calling it runs none of its body and never raises.
\*  "generic" any download_func / progress_callback accepted by the
\*            DownloadQueue interface: either may return or raise.
Callers == {"app", "library", "generic"}

VARIABLES
    \* ---- ThreadPoolDownloadQueue batch ----
    caller,        \* which caller submitted the batch
    fails,         \* entries whose download fails (network/extraction error)
    nextIdx,       \* enqueue_playlist: index of the next entry to submit
    enqueuePc,     \* enqueue_playlist: "submit" | "returned"
    active_task,   \* self._active_tasks[task_id]: total, completed, failed, results
    pc,            \* per entry: position of its process_entry call
    tmp,           \* per entry: the counter value read by its pending += 1
    incC,          \* per entry: times line 95 (completed += 1) ran for it
    incF,          \* per entry: times line 103 (failed += 1) ran for it
    cbCalls,       \* per entry: times progress_callback was invoked for it
    future,        \* per entry: state of the Future returned by submit
    \* ---- auto-sync scheduler, manual sync, library document ----
    clock,         \* datetime.utcnow(), in minutes
    lock,          \* AUTO_SYNC_LOCK: the thread holding it, or None
    library,       \* the persisted document (library.json), replaced whole
    spc,           \* per thread: position in its code
    target,        \* per thread: playlist_id of its sync_playlist_with_remote
    data,          \* per thread: the document it loaded and is mutating
    missing,       \* per thread: missing_urls still to ingest
    errors,        \* per thread: errors collected by the pass
    dueIds,        \* run_due_auto_sync: due_ids of the current tick
    dueIdx,        \* run_due_auto_sync: position in due_ids (1-based)
    attempted,     \* ids sync_playlist_with_remote was called with this tick
    tickErrs,      \* ids whose pass raised during this tick
    written,       \* per playlist: <<status>> last written by a pass of that playlist
    \* ---- should_auto_sync_playlist on one input ----
    candidate,     \* the playlist record handed to the predicate
    dueNow,        \* the value of now handed to it
    dueAnswer,     \* <<>> before the call, <<returned value>> after it
    \* ---- one sync_playlist_with_remote call ----
    plib,          \* the persisted document
    plib0,         \* the persisted document when the call started
    remote,        \* what the collection behind the auto-sync URL lists
    ptarget,       \* playlist_id of the call
    ppc,           \* position of the call
    missing_urls,  \* missing_urls (line 277)
    midx,          \* position of the loop of line 280 in missing_urls
    perrors,       \* errors (line 279)
    added_tracks,  \* ids of added_tracks (line 278)
    listCalls,     \* times _fetch_flat_playlist_entries was called
    ingestCalls,   \* urls _ingest_from_url was called with, in order
    presult,       \* <<>>, or <<the dict the call returned>>
    \* ---- store_downloaded_tracks on the track list ----
    mdata,         \* the document: persisted between calls, data during one
    mpc,           \* "idle" | "loop"
    source_url,    \* the call's source_url argument
    track_map,     \* the ids of track_map (line 717, updated at line 728)
    todo,          \* number of infos not yet handed to the loop of line 718
    lastKind,      \* what the last iteration did: "none" | "new" | "merge"
    lastDiff,      \* fields in which the last record differs from its stored entry
    \* ---- append_tracks_to_playlist on one playlist ----
    track_ids,     \* the playlist's persisted track_ids
    before_ids,    \* track_ids before the last call
    given_ids,     \* ids of the stored tracks of the last call, in input order
    given_playlist,\* the playlist_id argument of the last call
    apc,           \* position of the call: "idle", "loop", "done"
    \* ---- _store_downloaded_tracks beside other writers ----
    disk,          \* the library document in its file
    ipc,           \* position of the ingestion: "call", "merged", "append", "found", "done"
    idata,         \* the document the ingestion holds in memory
    iinfos,        \* the infos argument of the ingestion
    iplaylist,     \* the playlist_id argument of the ingestion
    loads,         \* loads of the document by the ingestion
    saves,         \* rewrites of the document by the ingestion
    others,        \* rewrites of the document by other handlers
    between,       \* other handlers' rewrites after the ingestion's first rewrite
    \* ---- event streams ----
    kind,          \* which generator is consumed
    branch,        \* import_playlist_batch: "single" or "batch" (is_single_video)
    backend,       \* what create_download_queue returns: "threadpool" or "redis"
    tool,          \* outcome of the yt-dlp run of _iter_ytdlp_events
    storing,       \* outcome of its _store_downloaded_tracks: "ok" or "raises"
    precheck,      \* outcome of the entry count run of import_playlist_batch
    listing,       \* entries the collection lists, None when listing fails
    bfails,        \* entries whose download fails
    gpc,           \* position of the generator
    wpc,           \* per entry: position of its process_entry call
    wtmp,          \* per entry: the counter value read by its pending += 1
    completed,     \* the completed counter the polling loop reads
    failed,        \* the failed counter the polling loop reads
    downloaded_tracks, \* entries whose tracks the callback has collected
    stored,        \* entries whose tracks were written to the library
    dispatched,    \* work items handed to the pool
    terminals,     \* terminal events (complete, error) yielded so far
    trailing,      \* events yielded after a terminal event
    lastEvent,     \* the event yielded last
    escaped,       \* an exception has left the generator
    \* ---- single item or collection ----
    curl,          \* the URL handed to the classification
    verdict,       \* <<>> before, <<what both classifications answered>> after
    \* ---- normalize_source_url on one URL ----
    nshape,        \* the link shape of the URL
    nid,           \* the item id written into the URL
    nurl,          \* the URL, a string
    nout,          \* <<>> before, <<normalize(url), normalize(normalize(url))>> after
    \* ---- update_playlist on one playlist ----
    uplaylist,     \* the stored playlist record
    upayload,      \* the PlaylistUpdate of the request, <<>> before the request
    ustatus,       \* "call", then the answer: "ok" or "404"
    \* ---- the URL of one batch unit ----
    rentry,        \* the entry of the listing
    rurls,         \* <<>> before, <<URL of the ThreadPool unit, URL of the Redis task>> after
    \* ---- a request that writes the document beside a sync pass ----
    eop,           \* the request of the other thread: "rename" or "delete_track"
    epc,           \* "ready", "loaded", then "done" or "404"
    edata,         \* the document that request loaded, as it changed it
    ewhen,         \* where the sync pass was at the load and at the save of the request
    \* ---- the due set of one tick over stored last_run values ----
    tplaylists,    \* the playlists of the loaded document, with stored last_run values
    tnow,          \* now of the tick, in minutes
    ttick,         \* <<>> before the tick, then <<its outcome>>
    \* ---- start_redis_worker on a list of tasks ----
    download_queue, \* the Redis list "download_queue": the tasks not yet popped
    hashes,        \* the Redis hashes task:<id>: completed and failed of each batch
    task_id,       \* the worker's locals task and task_id: 0 unbound, else the batch last decoded
    looping,       \* the worker is in its while loop
    handled        \* per popped task: its batch, increments of its own and of another batch

queueVars == <<caller, fails, nextIdx, enqueuePc, active_task, pc, tmp,
               incC, incF, cbCalls, future>>

syncVars == <<clock, lock, library, spc, target, data, missing, errors,
              dueIds, dueIdx, attempted, tickErrs, written>>

dueVars == <<candidate, dueNow, dueAnswer>>

passVars == <<plib, plib0, remote, ptarget, ppc, missing_urls, midx, perrors,
              added_tracks, listCalls, ingestCalls, presult>>

mergeVars == <<mdata, mpc, source_url, track_map, todo, lastKind, lastDiff>>

appendVars == <<track_ids, before_ids, given_ids, given_playlist, apc>>

ingestVars == <<disk, ipc, idata, iinfos, iplaylist, loads, saves, others, between>>

streamVars == <<kind, branch, backend, tool, storing, precheck, listing, bfails, gpc, wpc, wtmp, completed, failed, downloaded_tracks, stored, dispatched, terminals, trailing, lastEvent, escaped>>

classifyVars == <<curl, verdict>>

normalizeVars == <<nshape, nid, nurl, nout>>

updateVars == <<uplaylist, upayload, ustatus>>

resolveVars == <<rentry, rurls>>

editVars == <<eop, epc, edata, ewhen>>

tickVars == <<tplaylists, tnow, ttick>>

redisVars == <<download_queue, hashes, task_id, looping, handled>>

\* The variables of the specifications of handlers, streams and pure
\* functions.
callVars == <<ingestVars, streamVars, classifyVars, normalizeVars, updateVars, resolveVars, editVars, tickVars, redisVars>>

\* Every variable but those of the ingest group.
exceptIngestVars ==
    <<queueVars, syncVars, dueVars, passVars, mergeVars, appendVars,
      streamVars, classifyVars, normalizeVars, updateVars, resolveVars,
      editVars, tickVars, redisVars>>

\* Every variable but those of the stream group.
exceptStreamVars ==
    <<queueVars, syncVars, dueVars, passVars, mergeVars, appendVars,
      ingestVars, classifyVars, normalizeVars, updateVars, resolveVars,
      editVars, tickVars, redisVars>>

\* Every variable but those of the classify group.
exceptClassifyVars ==
    <<queueVars, syncVars, dueVars, passVars, mergeVars, appendVars,
      ingestVars, streamVars, normalizeVars, updateVars, resolveVars,
      editVars, tickVars, redisVars>>

\* Every variable but those of the normalize group.
exceptNormalizeVars ==
    <<queueVars, syncVars, dueVars, passVars, mergeVars, appendVars,
      ingestVars, streamVars, classifyVars, updateVars, resolveVars,
      editVars, tickVars, redisVars>>

\* Every variable but those of the update group.
exceptUpdateVars ==
    <<queueVars, syncVars, dueVars, passVars, mergeVars, appendVars,
      ingestVars, streamVars, classifyVars, normalizeVars, resolveVars,
      editVars, tickVars, redisVars>>

\* Every variable but those of the resolve group.
exceptResolveVars ==
    <<queueVars, syncVars, dueVars, passVars, mergeVars, appendVars,
      ingestVars, streamVars, classifyVars, normalizeVars, updateVars,
      editVars, tickVars, redisVars>>

\* Every variable but those of the edit group.
exceptEditVars ==
    <<queueVars, syncVars, dueVars, passVars, mergeVars, appendVars,
      ingestVars, streamVars, classifyVars, normalizeVars, updateVars,
      resolveVars, tickVars, redisVars>>

\* Every variable but those of the tick group.
exceptTickVars ==
    <<queueVars, syncVars, dueVars, passVars, mergeVars, appendVars,
      ingestVars, streamVars, classifyVars, normalizeVars, updateVars,
      resolveVars, editVars, redisVars>>

\* Every variable but those of the redis group.
exceptRedisVars ==
    <<queueVars, syncVars, dueVars, passVars, mergeVars, appendVars,
      ingestVars, streamVars, classifyVars, normalizeVars, updateVars,
      resolveVars, editVars, tickVars>>

\* Every variable but those of the sync and of the edit group.
exceptSyncEditVars ==
    <<queueVars, dueVars, passVars, mergeVars, appendVars, ingestVars,
      streamVars, classifyVars, normalizeVars, updateVars, resolveVars,
      tickVars, redisVars>>

\* The variables of the specifications of single calls.
dataVars == <<dueVars, passVars, mergeVars, appendVars, callVars>>

vars == <<queueVars, syncVars, dataVars>>

(***************************************************************************)
(* ThreadPoolDownloadQueue                                                 *)
(***************************************************************************)

\* get_status(task_id): a snapshot of the three counters.
get_status ==
    [total |-> active_task.total,
     completed |-> active_task.completed,
     failed |-> active_task.failed]

\* Entries whose process_entry is executing on a worker thread.
Running == {e \in Entries : pc[e] \notin {"new", "queued", "done"}}

\* Entries inside their download_func call.
Downloading == {e \in Entries : pc[e] = "download"}

\* ThreadPoolExecutor(max_workers): a work item is taken only by an idle
\* worker, and at most max_workers worker threads exist.
max_workers == MaxWorkers

\* Mutant of SlotFree: work items start without waiting for an idle worker.
SlotFreeUnbounded == TRUE

SlotFree == Cardinality(Running) < max_workers

\* Whether download_func(url, playlist_id) raises for entry e.
DownloadRaises(e) ==
    CASE caller = "app" -> e \in fails
      [] caller = "library" -> FALSE
      [] OTHER -> e \in fails

\* The possible outcomes of one progress_callback call: TRUE when it raises.
CallbackRaises ==
    IF caller = "generic" THEN {FALSE, TRUE} ELSE {FALSE}

\* An event of a stream: its type, the counts and tracks it carries, and whether it
\* has a message.
Event(type, c, f, tr, msg) ==
    [type |-> type, completed |-> c, failed |-> f, tracks |-> tr,
     message |-> msg]

\* No event was yielded yet.
NoEvent == Event("none", 0, 0, {}, FALSE)

\* A URL as urlparse and parse_qs see it: its netloc, whether its path
\* contains "/playlist" and "/sets/", and whether its query has the keys
\* v and list.
Link(netloc, playlist_path, sets_path, v, list) ==
    [netloc |-> netloc, playlist_path |-> playlist_path,
     sets_path |-> sets_path, query_v |-> v, query_list |-> list]

\* No URL was handed over yet.
NoLink == Link("", FALSE, FALSE, FALSE, FALSE)

\* init_library: the document of a fresh installation.
EmptyLibrary == [tracks |-> <<>>, playlists |-> <<>>]

\* A playlist as create_playlist stores it when no auto-sync is asked for.
IdlePlaylist ==
    [auto_sync_url |-> "",
     auto_sync_interval_minutes |-> None,
     auto_sync_enabled |-> "False",
     auto_sync_last_run |-> None]

\* The library document before any sync: every playlist has an auto-sync
\* URL and interval, has never run and references no track.
InitialLibrary ==
    [tracks |-> {},
          playlists |-> [p \in 1 .. NumPlaylists |->
              [auto_sync_url |-> "url",
               auto_sync_interval_minutes |-> IntervalMinutes,
               auto_sync_enabled |-> NoneFlag,
               auto_sync_last_run |-> None,
               auto_sync_last_error |-> <<>>,
               track_ids |-> <<>>]]]

\* A batch handed to enqueue_playlist; the scheduler and the sync endpoint
\* are at rest.
InitQueue ==
    /\ caller \in Callers
    /\ fails \in SUBSET Entries
    /\ nextIdx = 0
    /\ enqueuePc = "submit"
    /\ active_task = [total |-> NumEntries, completed |-> 0, failed |-> 0,
                      results |-> {}]
    /\ pc = [e \in Entries |-> "new"]
    /\ tmp = [e \in Entries |-> 0]
    /\ incC = [e \in Entries |-> 0]
    /\ incF = [e \in Entries |-> 0]
    /\ cbCalls = [e \in Entries |-> 0]
    /\ future = [e \in Entries |-> "none"]
    /\ clock = 0
    /\ lock = None
    /\ library = InitialLibrary
    /\ spc = [q \in 0 .. NumManual |-> IF q = 0 THEN "sleep" ELSE "idle"]
    /\ target = [q \in 0 .. NumManual |-> None]
    /\ data = [q \in 0 .. NumManual |-> NoDoc]
    /\ missing = [q \in 0 .. NumManual |-> <<>>]
    /\ errors = [q \in 0 .. NumManual |-> <<>>]
    /\ dueIds = <<>>
    /\ dueIdx = 0
    /\ attempted = <<>>
    /\ tickErrs = {}
    /\ written = [p \in 1 .. NumPlaylists |-> <<>>]
    /\ candidate = IdlePlaylist
    /\ dueNow = 0
    /\ dueAnswer = <<>>
    /\ plib = EmptyLibrary
    /\ plib0 = EmptyLibrary
    /\ remote = <<>>
    /\ ptarget = ""
    /\ ppc = "idle"
    /\ missing_urls = <<>>
    /\ midx = 0
    /\ perrors = <<>>
    /\ added_tracks = <<>>
    /\ listCalls = 0
    /\ ingestCalls = <<>>
    /\ presult = <<>>
    /\ mdata = EmptyLibrary
    /\ mpc = "idle"
    /\ source_url = ""
    /\ track_map = {}
    /\ todo = 0
    /\ lastKind = "none"
    /\ lastDiff = {}
    /\ track_ids = <<>>
    /\ before_ids = <<>>
    /\ given_ids = <<>>
    /\ given_playlist = ""
    /\ apc = "idle"
    /\ disk = EmptyLibrary
    /\ ipc = "idle"
    /\ idata = EmptyLibrary
    /\ iinfos = <<>>
    /\ iplaylist = ""
    /\ loads = 0
    /\ saves = 0
    /\ others = 0
    /\ between = 0
    /\ kind = "none"
    /\ branch = "none"
    /\ backend = "threadpool"
    /\ tool = "ok"
    /\ storing = "ok"
    /\ precheck = "ok"
    /\ listing = 0
    /\ bfails = {}
    /\ gpc = "end"
    /\ wpc = <<>>
    /\ wtmp = <<>>
    /\ completed = 0
    /\ failed = 0
    /\ downloaded_tracks = {}
    /\ stored = {}
    /\ dispatched = 0
    /\ terminals = 0
    /\ trailing = 0
    /\ lastEvent = NoEvent
    /\ escaped = FALSE
    /\ curl = NoLink
    /\ verdict = <<>>
    /\ nshape = "none"
    /\ nid = <<>>
    /\ nurl = <<>>
    /\ nout = <<>>
    /\ uplaylist = <<>>
    /\ upayload = <<>>
    /\ ustatus = "idle"
    /\ rentry = <<>>
    /\ rurls = <<>>
    /\ eop = "none"
    /\ epc = "off"
    /\ edata = NoDoc
    /\ ewhen = <<>>
    /\ tplaylists = <<>>
    /\ tnow = 0
    /\ ttick = <<>>
    /\ download_queue = <<>>
    /\ hashes = <<>>
    /\ task_id = 0
    /\ looping = FALSE
    /\ handled = <<>>

\* enqueue_playlist, lines 109-111: submit the next entry.
Submit ==
    /\ UNCHANGED <<syncVars, dataVars>>
    /\ enqueuePc = "submit"
    /\ nextIdx < NumEntries
    /\ pc' = [pc EXCEPT ![nextIdx] = "queued"]
    /\ future' = [future EXCEPT ![nextIdx] = "pending"]
    /\ nextIdx' = nextIdx + 1
    /\ UNCHANGED <<caller, fails, enqueuePc, active_task, tmp, incC, incF, cbCalls>>

\* enqueue_playlist, line 113: return task_id.
ReturnTaskId ==
    /\ UNCHANGED <<syncVars, dataVars>>
    /\ enqueuePc = "submit"
    /\ nextIdx = NumEntries
    /\ enqueuePc' = "returned"
    /\ UNCHANGED <<caller, fails, nextIdx, active_task, pc, tmp, incC, incF,
                   cbCalls, future>>

\* A pool worker takes the oldest queued work item (FIFO work queue) and
\* enters process_entry, up to the download_func call of line 94.
StartWorker(e) ==
    /\ UNCHANGED <<syncVars, dataVars>>
    /\ pc[e] = "queued"
    /\ \A o \in Entries : pc[o] = "queued" => e <= o
    /\ SlotFree
    /\ pc' = [pc EXCEPT ![e] = "download"]
    /\ UNCHANGED <<caller, fails, nextIdx, enqueuePc, active_task, tmp, incC,
                   incF, cbCalls, future>>

\* Mutant of DownloadFunc: no except body, a raising download_func leaves
\* process_entry at once and nothing is recorded for the entry.
DownloadFuncUncaught(e) ==
    /\ UNCHANGED <<syncVars, dataVars>>
    /\ pc[e] = "download"
    /\ IF DownloadRaises(e)
       THEN /\ pc' = [pc EXCEPT ![e] = "done"]
            /\ future' = [future EXCEPT ![e] = "exception"]
       ELSE /\ pc' = [pc EXCEPT ![e] = "c_read"]
            /\ UNCHANGED future
    /\ UNCHANGED <<caller, fails, nextIdx, enqueuePc, active_task, tmp, incC,
                   incF, cbCalls>>

\* Line 94: download_func returns (try body goes on) or raises (except body).
DownloadFunc(e) ==
    /\ UNCHANGED <<syncVars, dataVars>>
    /\ pc[e] = "download"
    /\ pc' = [pc EXCEPT ![e] = IF DownloadRaises(e) THEN "f_read" ELSE "c_read"]
    /\ UNCHANGED <<caller, fails, nextIdx, enqueuePc, active_task, tmp, incC,
                   incF, cbCalls, future>>

\* Line 95, first half of `completed += 1`: load the counter.
ReadCompleted(e) ==
    /\ UNCHANGED <<syncVars, dataVars>>
    /\ pc[e] = "c_read"
    /\ tmp' = [tmp EXCEPT ![e] = active_task.completed]
    /\ pc' = [pc EXCEPT ![e] = "c_write"]
    /\ UNCHANGED <<caller, fails, nextIdx, enqueuePc, active_task, incC, incF,
                   cbCalls, future>>

\* Line 95, second half: store the loaded value plus one; line 96: append
\* the result to results.
WriteCompleted(e) ==
    /\ UNCHANGED <<syncVars, dataVars>>
    /\ pc[e] = "c_write"
    /\ active_task' = [active_task EXCEPT !.completed = tmp[e] + 1,
                                          !.results = @ \cup {e}]
    /\ incC' = [incC EXCEPT ![e] = @ + 1]
    /\ pc' = [pc EXCEPT ![e] = "c_cb"]
    /\ UNCHANGED <<caller, fails, nextIdx, enqueuePc, tmp, incF, cbCalls, future>>

\* Lines 98-101: progress_callback(task, result) inside the try body; when
\* it raises, control passes to the except body of line 102.
CallbackOk(e) ==
    /\ UNCHANGED <<syncVars, dataVars>>
    /\ pc[e] = "c_cb"
    /\ cbCalls' = [cbCalls EXCEPT ![e] = @ + 1]
    /\ \E raises \in CallbackRaises :
         IF raises
         THEN /\ pc' = [pc EXCEPT ![e] = "f_read"]
              /\ UNCHANGED future
         ELSE /\ pc' = [pc EXCEPT ![e] = "done"]
              /\ future' = [future EXCEPT ![e] = "result"]
    /\ UNCHANGED <<caller, fails, nextIdx, enqueuePc, active_task, tmp, incC, incF>>

\* Line 103, first half of `failed += 1`.
ReadFailed(e) ==
    /\ UNCHANGED <<syncVars, dataVars>>
    /\ pc[e] = "f_read"
    /\ tmp' = [tmp EXCEPT ![e] = active_task.failed]
    /\ pc' = [pc EXCEPT ![e] = "f_write"]
    /\ UNCHANGED <<caller, fails, nextIdx, enqueuePc, active_task, incC, incF,
                   cbCalls, future>>

\* Line 103, second half.
WriteFailed(e) ==
    /\ UNCHANGED <<syncVars, dataVars>>
    /\ pc[e] = "f_write"
    /\ active_task' = [active_task EXCEPT !.failed = tmp[e] + 1]
    /\ incF' = [incF EXCEPT ![e] = @ + 1]
    /\ pc' = [pc EXCEPT ![e] = "f_cb"]
    /\ UNCHANGED <<caller, fails, nextIdx, enqueuePc, tmp, incC, cbCalls, future>>

\* Lines 104-106: progress_callback(task, {"error": ...}) in the except body;
\* an exception raised here leaves process_entry and is kept by the Future.
CallbackErr(e) ==
    /\ UNCHANGED <<syncVars, dataVars>>
    /\ pc[e] = "f_cb"
    /\ cbCalls' = [cbCalls EXCEPT ![e] = @ + 1]
    /\ pc' = [pc EXCEPT ![e] = "done"]
    /\ \E raises \in CallbackRaises :
         future' = [future EXCEPT ![e] = IF raises THEN "exception" ELSE "error"]
    /\ UNCHANGED <<caller, fails, nextIdx, enqueuePc, active_task, tmp, incC, incF>>

\* Lines 95-96 on a build whose thread switches never fall inside the
\* statement (CPython with the GIL, which switches threads only at calls
\* and backward jumps): `completed += 1` is one step.
IncrementCompleted(e) ==
    /\ UNCHANGED <<syncVars, dataVars>>
    /\ pc[e] = "c_read"
    /\ active_task' = [active_task EXCEPT !.completed = @ + 1,
                                          !.results = @ \cup {e}]
    /\ incC' = [incC EXCEPT ![e] = @ + 1]
    /\ pc' = [pc EXCEPT ![e] = "c_cb"]
    /\ UNCHANGED <<caller, fails, nextIdx, enqueuePc, tmp, incF, cbCalls, future>>

\* Line 103 on such a build: `failed += 1` is one step.
IncrementFailed(e) ==
    /\ UNCHANGED <<syncVars, dataVars>>
    /\ pc[e] = "f_read"
    /\ active_task' = [active_task EXCEPT !.failed = @ + 1]
    /\ incF' = [incF EXCEPT ![e] = @ + 1]
    /\ pc' = [pc EXCEPT ![e] = "f_cb"]
    /\ UNCHANGED <<caller, fails, nextIdx, enqueuePc, tmp, incC, cbCalls, future>>

(***************************************************************************)
(* Library document, auto-sync scheduler and manual sync (app.py)          *)
(***************************************************************************)

Playlists == 1 .. NumPlaylists

\* The ids a sync request names: the playlists of the document.
RequestIds == Playlists

\* The scheduler thread started by start_auto_sync_thread, and the request
\* threads serving POST /api/playlists/{playlist_id}/sync.
Sched == 0
ManualThreads == 1 .. NumManual
Threads == {Sched} \cup ManualThreads

\* AUTO_SYNC_POLL_SECONDS = 60: one poll interval is one clock minute.
\* The remote collection behind playlist p's auto-sync URL lists one item,
\* whose normalized source URL (and track id) is written p.
RemoteUrls(p) == <<p>>

\* parse_positive_int: None for an absent or non-positive value.
parse_positive_int(value) ==
    IF value = None THEN None
    ELSE IF value <= 0 THEN None
    ELSE value

\* Mutant of should_auto_sync_playlist: the auto_sync_enabled flag is not
\* looked at.
ShouldIgnoringEnabled(playlist, now) ==
    IF playlist.auto_sync_url = "" THEN FALSE
    ELSE IF parse_positive_int(playlist.auto_sync_interval_minutes) = None THEN FALSE
    ELSE IF playlist.auto_sync_last_run = None THEN TRUE
    ELSE now - playlist.auto_sync_last_run
            >= parse_positive_int(playlist.auto_sync_interval_minutes)

\* Mutant of should_auto_sync_playlist: due only after more than the
\* interval has elapsed.
ShouldStrictlyLater(playlist, now) ==
    IF playlist.auto_sync_url = "" THEN FALSE
    ELSE IF parse_positive_int(playlist.auto_sync_interval_minutes) = None THEN FALSE
    ELSE IF playlist.auto_sync_enabled = "False" THEN FALSE
    ELSE IF playlist.auto_sync_last_run = None THEN TRUE
    ELSE now - playlist.auto_sync_last_run
            > parse_positive_int(playlist.auto_sync_interval_minutes)

\* should_auto_sync_playlist(playlist, now), for stored last_run values that
\* are absent or well-formed timestamps.
should_auto_sync_playlist(playlist, now) ==
    IF playlist.auto_sync_url = "" THEN FALSE
    ELSE IF parse_positive_int(playlist.auto_sync_interval_minutes) = None THEN FALSE
    ELSE IF playlist.auto_sync_enabled = "False" THEN FALSE
    ELSE IF playlist.auto_sync_last_run = None THEN TRUE
    ELSE now - playlist.auto_sync_last_run
            >= parse_positive_int(playlist.auto_sync_interval_minutes)

\* due_ids of run_due_auto_sync: the ids of the due playlists of document
\* doc, in document order starting at playlist i.
RECURSIVE DueIds(_, _, _)
DueIds(doc, now, i) ==
    IF i > NumPlaylists THEN <<>>
    ELSE (IF should_auto_sync_playlist(doc.playlists[i], now) THEN <<i>> ELSE <<>>)
         \o DueIds(doc, now, i + 1)

\* collect_playlist_source_urls: normalized source URLs of the tracks the
\* playlist references that exist in the document.
collect_playlist_source_urls(playlist, doc) ==
    {playlist.track_ids[k] : k \in 1 .. Len(playlist.track_ids)} \cap doc.tracks

\* Mutant of MissingUrls: every listed URL counts as missing.
MissingUrlsUnfiltered(urls, existing) == urls

\* missing_urls = [url for url in entry_urls if url not in existing_urls]
RECURSIVE MissingUrls(_, _)
MissingUrls(urls, existing) ==
    IF urls = <<>> THEN <<>>
    ELSE (IF Head(urls) \in existing THEN <<>> ELSE <<Head(urls)>>)
         \o MissingUrls(Tail(urls), existing)

\* append_tracks_to_playlist, lines 463-467 of app.py, on a loaded document.
AppendTrack(doc, p, t) ==
    IF \E k \in 1 .. Len(doc.playlists[p].track_ids) :
           doc.playlists[p].track_ids[k] = t
    THEN doc
    ELSE [doc EXCEPT !.playlists[p].track_ids = Append(@, t)]

\* _sync_playlist_with_remote, lines 291-293: the status fields set on the
\* re-loaded document.
StatusUpdate(doc, p, errs, now) ==
    [doc EXCEPT !.playlists[p].auto_sync_last_run = now,
                !.playlists[p].auto_sync_last_error = errs]

\* Mutant of LockFree: the lock never excludes anybody.
LockAlwaysFree == TRUE

\* threading.Lock: acquire succeeds only when no thread holds the lock.
LockFree == lock = None

\* Mutant of DueIdxAfterRaise: an exception of one pass leaves the loop.
DueIdxAbortOnRaise(i, n) == n + 1

\* run_due_auto_sync, lines 334-336: `except Exception: continue` goes on
\* with the next id of due_ids.
DueIdxAfterRaise(i, n) == i + 1

\* Threads that are executing a sync_playlist_with_remote body.
BodyPcs == {"sync_load", "fetch", "ingest", "store_load", "store_save",
            "append_load", "append_save", "status_load", "status_save"}

InSyncBody(q) == spc[q] \in BodyPcs

\* The scheduler thread asleep and the sync requests not yet arrived; no
\* batch is ever submitted (the queue stays as constructed).
InitSync ==
    /\ caller = "app"
    /\ fails = {}
    /\ nextIdx = 0
    /\ enqueuePc = "submit"
    /\ active_task = [total |-> NumEntries, completed |-> 0, failed |-> 0,
                      results |-> {}]
    /\ pc = [e \in Entries |-> "new"]
    /\ tmp = [e \in Entries |-> 0]
    /\ incC = [e \in Entries |-> 0]
    /\ incF = [e \in Entries |-> 0]
    /\ cbCalls = [e \in Entries |-> 0]
    /\ future = [e \in Entries |-> "none"]
    /\ clock = 0
    /\ lock = None
    /\ library = InitialLibrary
    /\ spc = [q \in 0 .. NumManual |-> IF q = 0 THEN "sleep" ELSE "idle"]
    /\ target = [q \in 0 .. NumManual |-> None]
    /\ data = [q \in 0 .. NumManual |-> NoDoc]
    /\ missing = [q \in 0 .. NumManual |-> <<>>]
    /\ errors = [q \in 0 .. NumManual |-> <<>>]
    /\ dueIds = <<>>
    /\ dueIdx = 0
    /\ attempted = <<>>
    /\ tickErrs = {}
    /\ written = [p \in 1 .. NumPlaylists |-> <<>>]
    /\ candidate = IdlePlaylist
    /\ dueNow = 0
    /\ dueAnswer = <<>>
    /\ plib = EmptyLibrary
    /\ plib0 = EmptyLibrary
    /\ remote = <<>>
    /\ ptarget = ""
    /\ ppc = "idle"
    /\ missing_urls = <<>>
    /\ midx = 0
    /\ perrors = <<>>
    /\ added_tracks = <<>>
    /\ listCalls = 0
    /\ ingestCalls = <<>>
    /\ presult = <<>>
    /\ mdata = EmptyLibrary
    /\ mpc = "idle"
    /\ source_url = ""
    /\ track_map = {}
    /\ todo = 0
    /\ lastKind = "none"
    /\ lastDiff = {}
    /\ track_ids = <<>>
    /\ before_ids = <<>>
    /\ given_ids = <<>>
    /\ given_playlist = ""
    /\ apc = "idle"
    /\ disk = EmptyLibrary
    /\ ipc = "idle"
    /\ idata = EmptyLibrary
    /\ iinfos = <<>>
    /\ iplaylist = ""
    /\ loads = 0
    /\ saves = 0
    /\ others = 0
    /\ between = 0
    /\ kind = "none"
    /\ branch = "none"
    /\ backend = "threadpool"
    /\ tool = "ok"
    /\ storing = "ok"
    /\ precheck = "ok"
    /\ listing = 0
    /\ bfails = {}
    /\ gpc = "end"
    /\ wpc = <<>>
    /\ wtmp = <<>>
    /\ completed = 0
    /\ failed = 0
    /\ downloaded_tracks = {}
    /\ stored = {}
    /\ dispatched = 0
    /\ terminals = 0
    /\ trailing = 0
    /\ lastEvent = NoEvent
    /\ escaped = FALSE
    /\ curl = NoLink
    /\ verdict = <<>>
    /\ nshape = "none"
    /\ nid = <<>>
    /\ nurl = <<>>
    /\ nout = <<>>
    /\ uplaylist = <<>>
    /\ upayload = <<>>
    /\ ustatus = "idle"
    /\ rentry = <<>>
    /\ rurls = <<>>
    /\ eop = "none"
    /\ epc = "off"
    /\ edata = NoDoc
    /\ ewhen = <<>>
    /\ tplaylists = <<>>
    /\ tnow = 0
    /\ ttick = <<>>
    /\ download_queue = <<>>
    /\ hashes = <<>>
    /\ task_id = 0
    /\ looping = FALSE
    /\ handled = <<>>

\* sync_playlist(playlist_id), line 986: a request arrives.
SyncRequest(q, p) ==
    /\ UNCHANGED <<queueVars, dataVars>>
    /\ q \in ManualThreads
    /\ spc[q] = "idle"
    /\ spc' = [spc EXCEPT ![q] = "acquire"]
    /\ target' = [target EXCEPT ![q] = p]
    /\ UNCHANGED <<clock, lock, library, data, missing, errors, dueIds, dueIdx,
                   attempted, tickErrs, written>>

\* _auto_sync_worker, line 340: time.sleep(AUTO_SYNC_POLL_SECONDS) returns,
\* one poll interval (a minute) later.
SchedWake ==
    /\ UNCHANGED <<queueVars, dataVars>>
    /\ spc[Sched] = "sleep"
    /\ clock < MaxTime
    /\ clock' = clock + 1
    /\ spc' = [spc EXCEPT ![Sched] = "check"]
    /\ UNCHANGED <<lock, library, target, data, missing, errors, dueIds,
                   dueIdx, attempted, tickErrs, written>>

\* _auto_sync_worker, lines 341-342: `if AUTO_SYNC_LOCK.locked(): continue`.
SchedCheckLocked ==
    /\ UNCHANGED <<queueVars, dataVars>>
    /\ spc[Sched] = "check"
    /\ spc' = [spc EXCEPT ![Sched] = IF lock # None THEN "sleep" ELSE "acquire"]
    /\ UNCHANGED <<clock, lock, library, target, data, missing, errors, dueIds,
                   dueIdx, attempted, tickErrs, written>>

\* Mutant of Acquire: sync_playlist runs its pass without taking the lock.
AcquireManualUnlocked(q) ==
    /\ UNCHANGED <<queueVars, dataVars>>
    /\ spc[q] = "acquire"
    /\ IF q = Sched
       THEN /\ LockFree
            /\ lock' = q
       ELSE UNCHANGED lock
    /\ spc' = [spc EXCEPT ![q] = IF q = Sched THEN "due" ELSE "sync_load"]
    /\ UNCHANGED <<clock, library, target, data, missing, errors, dueIds,
                   dueIdx, attempted, tickErrs, written>>

\* `with AUTO_SYNC_LOCK:` of _auto_sync_worker (line 343) and of
\* sync_playlist (line 988): blocks until the lock is free, then holds it.
Acquire(q) ==
    /\ UNCHANGED <<queueVars, dataVars>>
    /\ spc[q] = "acquire"
    /\ LockFree
    /\ lock' = q
    /\ spc' = [spc EXCEPT ![q] = IF q = Sched THEN "due" ELSE "sync_load"]
    /\ UNCHANGED <<clock, library, target, data, missing, errors, dueIds,
                   dueIdx, attempted, tickErrs, written>>

\* _run_due_auto_sync, lines 322-333: compute due_ids from a fresh load and
\* enter the loop (or return when nothing is due).
RunDue ==
    /\ UNCHANGED <<queueVars, dataVars>>
    /\ spc[Sched] = "due"
    /\ LET due == DueIds(library, clock, 1) IN
         /\ dueIds' = due
         /\ tickErrs' = {}
         /\ IF due = <<>>
            THEN /\ spc' = [spc EXCEPT ![Sched] = "release"]
                 /\ dueIdx' = 0
                 /\ attempted' = <<>>
                 /\ UNCHANGED target
            ELSE /\ spc' = [spc EXCEPT ![Sched] = "sync_load"]
                 /\ dueIdx' = 1
                 /\ attempted' = <<due[1]>>
                 /\ target' = [target EXCEPT ![Sched] = due[1]]
    /\ UNCHANGED <<clock, lock, library, data, missing, errors, written>>

\* _run_due_auto_sync raises before its loop (line 321 cannot read the
\* document, or the due predicate of line 326 raises): the exception
\* reaches `except Exception: continue` of _auto_sync_worker (lines
\* 345-347), which leaves the `with` block.
RunDueRaises ==
    /\ UNCHANGED <<queueVars, dataVars>>
    /\ spc[Sched] = "due"
    /\ spc' = [spc EXCEPT ![Sched] = "release"]
    /\ dueIds' = <<>>
    /\ dueIdx' = 0
    /\ attempted' = <<>>
    /\ tickErrs' = {}
    /\ UNCHANGED <<clock, lock, library, target, data, missing, errors, written>>

\* Mutant of AfterSync: the lock is taken and given back by acquire() and
\* release() calls around the pass, without `with` or `finally`: a pass
\* that raises leaves its caller without giving the lock back.
AfterSyncSkippingRelease(q, raised) ==
    /\ data' = [data EXCEPT ![q] = NoDoc]
    /\ missing' = [missing EXCEPT ![q] = <<>>]
    /\ errors' = [errors EXCEPT ![q] = <<>>]
    /\ IF q = Sched
       THEN LET i == IF raised THEN DueIdxAfterRaise(dueIdx, Len(dueIds))
                     ELSE dueIdx + 1 IN
              /\ dueIdx' = i
              /\ tickErrs' = IF raised THEN tickErrs \cup {target[q]} ELSE tickErrs
              /\ IF i <= Len(dueIds)
                 THEN /\ spc' = [spc EXCEPT ![q] = "sync_load"]
                      /\ target' = [target EXCEPT ![q] = dueIds[i]]
                      /\ attempted' = Append(attempted, dueIds[i])
                 ELSE /\ spc' = [spc EXCEPT ![q] = "release"]
                      /\ UNCHANGED <<target, attempted>>
       ELSE /\ spc' = [spc EXCEPT ![q] = IF raised THEN "answered" ELSE "release"]
            /\ UNCHANGED <<dueIdx, tickErrs, target, attempted>>

\* What the caller of sync_playlist_with_remote does when the call returns
\* or raises: the scheduler's loop goes to its next id (lines 332-336), the
\* endpoint leaves its `with` block (lines 989-995).
AfterSync(q, raised) ==
    /\ data' = [data EXCEPT ![q] = NoDoc]
    /\ missing' = [missing EXCEPT ![q] = <<>>]
    /\ errors' = [errors EXCEPT ![q] = <<>>]
    /\ IF q = Sched
       THEN LET i == IF raised THEN DueIdxAfterRaise(dueIdx, Len(dueIds))
                     ELSE dueIdx + 1 IN
              /\ dueIdx' = i
              /\ tickErrs' = IF raised THEN tickErrs \cup {target[q]} ELSE tickErrs
              /\ IF i <= Len(dueIds)
                 THEN /\ spc' = [spc EXCEPT ![q] = "sync_load"]
                      /\ target' = [target EXCEPT ![q] = dueIds[i]]
                      /\ attempted' = Append(attempted, dueIds[i])
                 ELSE /\ spc' = [spc EXCEPT ![q] = "release"]
                      /\ UNCHANGED <<target, attempted>>
       ELSE /\ spc' = [spc EXCEPT ![q] = "release"]
            /\ UNCHANGED <<dueIdx, tickErrs, target, attempted>>

\* _sync_playlist_with_remote, lines 261-268: load the document, find the
\* playlist, raise when it or its auto-sync URL is missing.
SyncLoad(q) ==
    /\ UNCHANGED <<queueVars, dataVars>>
    /\ spc[q] = "sync_load"
    /\ IF target[q] \notin Playlists
          \/ library.playlists[target[q]].auto_sync_url = ""
       THEN AfterSync(q, TRUE)
       ELSE /\ data' = [data EXCEPT ![q] = library]
            /\ spc' = [spc EXCEPT ![q] = "fetch"]
            /\ UNCHANGED <<target, missing, errors, dueIdx, attempted, tickErrs>>
    /\ UNCHANGED <<clock, lock, library, dueIds, written>>

\* Lines 269-279: _fetch_flat_playlist_entries returns the listing, from
\* which missing_urls is computed against the document loaded at line 261,
\* or raises (yt-dlp exits non-zero).
Fetch(q) ==
    /\ UNCHANGED <<queueVars, dataVars>>
    /\ spc[q] = "fetch"
    /\ \E listed \in BOOLEAN :
         IF listed
         THEN /\ missing' = [missing EXCEPT ![q] =
                    MissingUrls(RemoteUrls(target[q]),
                        collect_playlist_source_urls(
                            data[q].playlists[target[q]], data[q]))]
              /\ errors' = [errors EXCEPT ![q] = <<>>]
              /\ data' = [data EXCEPT ![q] = NoDoc]
              /\ spc' = [spc EXCEPT ![q] = "ingest"]
              /\ UNCHANGED <<target, dueIdx, attempted, tickErrs>>
         ELSE AfterSync(q, TRUE)
    /\ UNCHANGED <<clock, lock, library, dueIds, written>>

\* Lines 280-285: the next missing url; _download_with_ytdlp returns
\* metadata or raises, and a raise is appended to errors.  With no url left
\* the pass goes on to its status write.
Ingest(q) ==
    /\ UNCHANGED <<queueVars, dataVars>>
    /\ spc[q] = "ingest"
    /\ IF missing[q] = <<>>
       THEN /\ spc' = [spc EXCEPT ![q] = "status_load"]
            /\ UNCHANGED <<missing, errors>>
       ELSE \E downloaded \in BOOLEAN :
              IF downloaded
              THEN /\ spc' = [spc EXCEPT ![q] = "store_load"]
                   /\ UNCHANGED <<missing, errors>>
              ELSE /\ errors' = [errors EXCEPT ![q] = Append(@, Head(missing[q]))]
                   /\ missing' = [missing EXCEPT ![q] = Tail(@)]
                   /\ UNCHANGED spc
    /\ UNCHANGED <<clock, lock, library, target, data, dueIds, dueIdx,
                   attempted, tickErrs, written>>

\* _store_downloaded_tracks, lines 715-735: load the document and merge the
\* track into the loaded copy.
StoreLoad(q) ==
    /\ UNCHANGED <<queueVars, dataVars>>
    /\ spc[q] = "store_load"
    /\ data' = [data EXCEPT ![q] =
                  [library EXCEPT !.tracks = @ \cup {Head(missing[q])}]]
    /\ spc' = [spc EXCEPT ![q] = "store_save"]
    /\ UNCHANGED <<clock, lock, library, target, missing, errors, dueIds,
                   dueIdx, attempted, tickErrs, written>>

\* _store_downloaded_tracks, line 736: _save_library(data).
StoreSave(q) ==
    /\ UNCHANGED <<queueVars, dataVars>>
    /\ spc[q] = "store_save"
    /\ library' = data[q]
    /\ data' = [data EXCEPT ![q] = NoDoc]
    /\ spc' = [spc EXCEPT ![q] = "append_load"]
    /\ UNCHANGED <<clock, lock, target, missing, errors, dueIds, dueIdx,
                   attempted, tickErrs, written>>

\* _append_tracks_to_playlist, lines 458-467: load the document again and
\* add the track id to the playlist of the loaded copy.
AppendLoad(q) ==
    /\ UNCHANGED <<queueVars, dataVars>>
    /\ spc[q] = "append_load"
    /\ data' = [data EXCEPT ![q] =
                  AppendTrack(library, target[q], Head(missing[q]))]
    /\ spc' = [spc EXCEPT ![q] = "append_save"]
    /\ UNCHANGED <<clock, lock, library, target, missing, errors, dueIds,
                   dueIdx, attempted, tickErrs, written>>

\* _append_tracks_to_playlist, line 468: _save_library(data); the url is
\* ingested and the loop of line 280 goes on.
AppendSave(q) ==
    /\ UNCHANGED <<queueVars, dataVars>>
    /\ spc[q] = "append_save"
    /\ library' = data[q]
    /\ data' = [data EXCEPT ![q] = NoDoc]
    /\ missing' = [missing EXCEPT ![q] = Tail(@)]
    /\ spc' = [spc EXCEPT ![q] = "ingest"]
    /\ UNCHANGED <<clock, lock, target, errors, dueIds, dueIdx, attempted,
                   tickErrs, written>>

\* _sync_playlist_with_remote, lines 286-293: re-load the document and set
\* the playlist's last_run / last_error in the loaded copy.
StatusLoad(q) ==
    /\ UNCHANGED <<queueVars, dataVars>>
    /\ spc[q] = "status_load"
    /\ data' = [data EXCEPT ![q] =
                  StatusUpdate(library, target[q], errors[q], clock)]
    /\ spc' = [spc EXCEPT ![q] = "status_save"]
    /\ UNCHANGED <<clock, lock, library, target, missing, errors, dueIds,
                   dueIdx, attempted, tickErrs, written>>

\* Lines 294-300: _save_library(latest_data) and return the result.
StatusSave(q) ==
    /\ UNCHANGED <<queueVars, dataVars>>
    /\ spc[q] = "status_save"
    /\ library' = data[q]
    /\ written' = [written EXCEPT ![target[q]] =
                     <<[last_run |-> data[q].playlists[target[q]].auto_sync_last_run,
                        last_error |-> data[q].playlists[target[q]].auto_sync_last_error]>>]
    /\ AfterSync(q, FALSE)
    /\ UNCHANGED <<clock, lock, dueIds>>

\* Leaving the `with AUTO_SYNC_LOCK:` block releases the lock; the
\* scheduler goes back to sleep (line 339), the endpoint answers.
Release(q) ==
    /\ UNCHANGED <<queueVars, dataVars>>
    /\ spc[q] = "release"
    /\ lock' = IF lock = q THEN None ELSE lock
    /\ spc' = [spc EXCEPT ![q] = IF q = Sched THEN "sleep" ELSE "answered"]
    /\ target' = [target EXCEPT ![q] = None]
    /\ IF q = Sched
       THEN /\ dueIds' = <<>>
            /\ dueIdx' = 0
            /\ attempted' = <<>>
            /\ tickErrs' = {}
       ELSE UNCHANGED <<dueIds, dueIdx, attempted, tickErrs>>
    /\ UNCHANGED <<clock, library, data, missing, errors, written>>

(***************************************************************************)
(* Specifications                                                          *)
(***************************************************************************)

QueueStep ==
    \/ Submit
    \/ ReturnTaskId
    \/ \E e \in Entries : StartWorker(e)
    \/ \E e \in Entries : DownloadFunc(e)
    \/ \E e \in Entries : ReadCompleted(e)
    \/ \E e \in Entries : WriteCompleted(e)
    \/ \E e \in Entries : CallbackOk(e)
    \/ \E e \in Entries : ReadFailed(e)
    \/ \E e \in Entries : WriteFailed(e)
    \/ \E e \in Entries : CallbackErr(e)

NextQueue == QueueStep

\* One batch on a ThreadPoolDownloadQueue; no sync activity.  The counter
\* updates are unlocked loads and stores that the pool threads interleave.
SpecQueue == InitQueue /\ [][NextQueue]_vars

NextQueueGIL ==
    \/ Submit
    \/ ReturnTaskId
    \/ \E e \in Entries : StartWorker(e)
    \/ \E e \in Entries : DownloadFunc(e)
    \/ \E e \in Entries : IncrementCompleted(e)
    \/ \E e \in Entries : CallbackOk(e)
    \/ \E e \in Entries : IncrementFailed(e)
    \/ \E e \in Entries : CallbackErr(e)

\* The same batch on a build where each `+= 1` is indivisible: what the
\* queue does apart from the race on its counters.
SpecQueueGIL == InitQueue /\ [][NextQueueGIL]_vars

SyncStep ==
    \/ \E q \in ManualThreads, p \in RequestIds : SyncRequest(q, p)
    \/ SchedWake
    \/ SchedCheckLocked
    \/ \E q \in Threads : Acquire(q)
    \/ RunDue
    \/ RunDueRaises
    \/ \E q \in Threads : SyncLoad(q)
    \/ \E q \in Threads : Fetch(q)
    \/ \E q \in Threads : Ingest(q)
    \/ \E q \in Threads : StoreLoad(q)
    \/ \E q \in Threads : StoreSave(q)
    \/ \E q \in Threads : AppendLoad(q)
    \/ \E q \in Threads : AppendSave(q)
    \/ \E q \in Threads : StatusLoad(q)
    \/ \E q \in Threads : StatusSave(q)
    \/ \E q \in Threads : Release(q)

NextSync == SyncStep

\* The scheduler thread and the manual sync requests; no batch download.
SpecSync == InitSync /\ [][NextSync]_vars

(***************************************************************************)
(* Claims about the ThreadPool queue (checked under SpecQueue)             *)
(***************************************************************************)

\* Every submitted entry has finished its process_entry call.
BatchFinished == \A e \in Entries : pc[e] = "done"

\* Number of entries engineered to fail.
NumFailing == Cardinality(fails)

\* C1: in every reachable state get_status reports completed + failed <=
\* total, and neither completed nor failed decreases from one snapshot to
\* the next, for any outcome of download_func and of the progress callback.
C1_StatusBoundedMonotonic ==
    [][/\ get_status'.completed + get_status'.failed <= get_status'.total
       /\ get_status'.completed >= get_status.completed
       /\ get_status'.failed >= get_status.failed]_vars

\* C2: once every submitted entry has finished its process_entry call,
\* get_status reports completed + failed = total (no increment is lost).
C2_FinishedCountsAddUp ==
    BatchFinished => get_status.completed + get_status.failed = get_status.total

\* C3: for a batch of N entries of which exactly k downloads fail, after
\* completion completed = N - k and failed = k, for both callers of the
\* queue (app._batch_download_playlist, library_service.batch_download_playlist).
C3_FailedCountsFailures ==
    (BatchFinished /\ caller \in {"app", "library"}) =>
        /\ get_status.completed = NumEntries - NumFailing
        /\ get_status.failed = NumFailing

\* C4: every submitted entry reports exactly one outcome: never more than
\* one counter increment and one callback call for it, and exactly one of
\* each once it has finished, also when the callback raises after success.
C4_ExactlyOneOutcome ==
    \A e \in Entries :
        /\ incC[e] + incF[e] <= 1
        /\ cbCalls[e] <= 1
        /\ pc[e] = "done" => (incC[e] + incF[e] = 1 /\ cbCalls[e] = 1)

\* C5: one failing item never aborts the batch.  A download_func that raises
\* is recorded for its own entry (the failed increment runs once and the
\* Future gets a value or keeps the exception, nothing is re-raised), the
\* submission loop of enqueue_playlist is never blocked and returns, every
\* queued entry can still be dispatched as soon as a worker is idle, and
\* every finished entry has had its own outcome recorded.
C5_FailureDoesNotAbortBatch ==
    /\ \A e \in Entries :
         (pc[e] = "done" /\ DownloadRaises(e)) =>
             (incF[e] = 1 /\ future[e] \in {"error", "exception"})
    /\ \A e \in Entries : pc[e] = "done" => incC[e] + incF[e] >= 1
    /\ enqueuePc = "submit" => ENABLED (Submit \/ ReturnTaskId)
    /\ (\E e \in Entries : pc[e] = "queued") =>
         (Running # {} \/ ENABLED (\E e \in Entries : StartWorker(e)))
    /\ \A e \in Running :
         ENABLED (DownloadFunc(e) \/ ReadCompleted(e) \/ WriteCompleted(e)
                  \/ CallbackOk(e) \/ ReadFailed(e) \/ WriteFailed(e)
                  \/ CallbackErr(e))

\* C5 witness: the batch finished and enqueue_playlist returned, with a
\* download that raised and another entry that succeeded.
C5_Witness ==
    /\ BatchFinished
    /\ enqueuePc = "returned"
    /\ \E e \in Entries : DownloadRaises(e) /\ incF[e] = 1
    /\ \E e \in Entries : ~DownloadRaises(e) /\ incC[e] = 1 /\ future[e] = "result"

\* C6: at every moment the number of entries whose download_func call is in
\* progress is at most max_workers, whatever the number of entries.
C6_BoundedConcurrency == Cardinality(Downloading) <= max_workers

\* C6 witness: max_workers downloads in progress while a further submitted
\* entry waits in the work queue.
C6_Witness ==
    /\ Cardinality(Downloading) = max_workers
    /\ \E e \in Entries : pc[e] = "queued"

(***************************************************************************)
(* Claims about the sync lock and the scheduler (checked under SpecSync)   *)
(***************************************************************************)

\* C7: at most one sync pass executes at any time: the scheduler's
\* run_due_auto_sync and the manual sync_playlist calls never run their
\* sync_playlist_with_remote bodies concurrently.
C7_OneSyncPassAtATime == Cardinality({q \in Threads : InSyncBody(q)}) <= 1

\* C7 witness: the scheduler is inside a pass while a manual sync request
\* waits for the lock.
C7_Witness ==
    /\ InSyncBody(Sched)
    /\ \E q \in ManualThreads : spc[q] = "acquire"

\* C8: a tick that meets a running sync pass is skipped entirely: the
\* scheduler thread never blocks waiting for the sync lock (and so never
\* runs a deferred pass once the running pass ends), also when a manual
\* sync takes the lock between the scheduler's locked() check and its
\* acquire.
C8_SchedulerNeverWaitsForLock ==
    ~(spc[Sched] = "acquire" /\ lock \in ManualThreads)

\* C9: two simultaneous sync triggers for two different playlists never
\* lose a status write: once no pass is running, each playlist's
\* auto_sync_last_run and auto_sync_last_error in the persisted document
\* are the values its own latest pass wrote.
C9_StatusWritesNotLost ==
    (\A q \in Threads : ~InSyncBody(q)) =>
        \A p \in Playlists :
            written[p] # <<>> =>
                /\ library.playlists[p].auto_sync_last_run = written[p][1].last_run
                /\ library.playlists[p].auto_sync_last_error = written[p][1].last_error

\* C9 witness: before the first scheduler tick, two manual sync requests
\* for two different playlists have both been answered after each wrote
\* its playlist's status.
C9_Witness ==
    /\ clock = 0
    /\ \E q, r \in ManualThreads :
         /\ q # r
         /\ spc[q] = "answered"
         /\ spc[r] = "answered"
    /\ \E p, o \in Playlists :
         /\ p # o
         /\ written[p] # <<>>
         /\ written[o] # <<>>

\* C10: within one scheduler tick, sync_playlist_with_remote is attempted
\* once, in sequence, for every id of the due set, whether or not an
\* earlier pass of the tick raised.
C10_EveryDuePlaylistAttempted ==
    /\ Len(attempted) <= Len(dueIds)
    /\ attempted = SubSeq(dueIds, 1, Len(attempted))
    /\ spc[Sched] = "release" => attempted = dueIds

\* C10 witness: a tick ends with at least two due playlists, the first of
\* which raised, and every one attempted.
C10_Witness ==
    /\ spc[Sched] = "release"
    /\ Len(dueIds) >= 2
    /\ dueIds[1] \in tickErrs
    /\ attempted = dueIds

(***************************************************************************)
(* The due predicate on one input                                          *)
(***************************************************************************)

\* Values of playlist.get("auto_sync_url"): absent or empty, or a URL.
DueUrls == {"", "url"}

\* Values of playlist.get("auto_sync_interval_minutes"): absent, negative,
\* zero, and positive intervals, 30 minutes among them.
DueIntervals == {None, 0 - 2, 0, 1, 2, 30}

\* Values of playlist.get("auto_sync_enabled"): null, true, false.
DueFlags == {NoneFlag, "True", "False"}

\* A playlist record, a stored last_run (absent, or a timestamp in minutes)
\* and a value of now; everything else is at rest.
InitDue ==
    /\ candidate \in [auto_sync_url : DueUrls,
                       auto_sync_interval_minutes : DueIntervals,
                       auto_sync_enabled : DueFlags,
                       auto_sync_last_run : {None} \cup (0 .. MaxDueTime)]
    /\ dueNow \in 0 .. MaxDueTime
    /\ dueAnswer = <<>>
    /\ caller = "app"
    /\ fails = {}
    /\ nextIdx = 0
    /\ enqueuePc = "submit"
    /\ active_task = [total |-> NumEntries, completed |-> 0, failed |-> 0,
                      results |-> {}]
    /\ pc = [e \in Entries |-> "new"]
    /\ tmp = [e \in Entries |-> 0]
    /\ incC = [e \in Entries |-> 0]
    /\ incF = [e \in Entries |-> 0]
    /\ cbCalls = [e \in Entries |-> 0]
    /\ future = [e \in Entries |-> "none"]
    /\ clock = 0
    /\ lock = None
    /\ library = InitialLibrary
    /\ spc = [q \in 0 .. NumManual |-> IF q = 0 THEN "sleep" ELSE "idle"]
    /\ target = [q \in 0 .. NumManual |-> None]
    /\ data = [q \in 0 .. NumManual |-> NoDoc]
    /\ missing = [q \in 0 .. NumManual |-> <<>>]
    /\ errors = [q \in 0 .. NumManual |-> <<>>]
    /\ dueIds = <<>>
    /\ dueIdx = 0
    /\ attempted = <<>>
    /\ tickErrs = {}
    /\ written = [p \in 1 .. NumPlaylists |-> <<>>]
    /\ plib = EmptyLibrary
    /\ plib0 = EmptyLibrary
    /\ remote = <<>>
    /\ ptarget = ""
    /\ ppc = "idle"
    /\ missing_urls = <<>>
    /\ midx = 0
    /\ perrors = <<>>
    /\ added_tracks = <<>>
    /\ listCalls = 0
    /\ ingestCalls = <<>>
    /\ presult = <<>>
    /\ mdata = EmptyLibrary
    /\ mpc = "idle"
    /\ source_url = ""
    /\ track_map = {}
    /\ todo = 0
    /\ lastKind = "none"
    /\ lastDiff = {}
    /\ track_ids = <<>>
    /\ before_ids = <<>>
    /\ given_ids = <<>>
    /\ given_playlist = ""
    /\ apc = "idle"
    /\ disk = EmptyLibrary
    /\ ipc = "idle"
    /\ idata = EmptyLibrary
    /\ iinfos = <<>>
    /\ iplaylist = ""
    /\ loads = 0
    /\ saves = 0
    /\ others = 0
    /\ between = 0
    /\ kind = "none"
    /\ branch = "none"
    /\ backend = "threadpool"
    /\ tool = "ok"
    /\ storing = "ok"
    /\ precheck = "ok"
    /\ listing = 0
    /\ bfails = {}
    /\ gpc = "end"
    /\ wpc = <<>>
    /\ wtmp = <<>>
    /\ completed = 0
    /\ failed = 0
    /\ downloaded_tracks = {}
    /\ stored = {}
    /\ dispatched = 0
    /\ terminals = 0
    /\ trailing = 0
    /\ lastEvent = NoEvent
    /\ escaped = FALSE
    /\ curl = NoLink
    /\ verdict = <<>>
    /\ nshape = "none"
    /\ nid = <<>>
    /\ nurl = <<>>
    /\ nout = <<>>
    /\ uplaylist = <<>>
    /\ upayload = <<>>
    /\ ustatus = "idle"
    /\ rentry = <<>>
    /\ rurls = <<>>
    /\ eop = "none"
    /\ epc = "off"
    /\ edata = NoDoc
    /\ ewhen = <<>>
    /\ tplaylists = <<>>
    /\ tnow = 0
    /\ ttick = <<>>
    /\ download_queue = <<>>
    /\ hashes = <<>>
    /\ task_id = 0
    /\ looping = FALSE
    /\ handled = <<>>

\* One call should_auto_sync_playlist(playlist, now).
EvaluateDue ==
    /\ dueAnswer = <<>>
    /\ dueAnswer' = <<should_auto_sync_playlist(candidate, dueNow)>>
    /\ UNCHANGED <<candidate, dueNow>>
    /\ UNCHANGED <<queueVars, syncVars, passVars, mergeVars, appendVars, callVars>>

NextDue == EvaluateDue

SpecDue == InitDue /\ [][NextDue]_vars

(***************************************************************************)
(* Claims about the due predicate (checked under SpecDue)                  *)
(***************************************************************************)

\* The playlist passes the URL, interval and enabled gates.
PassesGates ==
    /\ candidate.auto_sync_url # ""
    /\ candidate.auto_sync_interval_minutes > 0
    /\ candidate.auto_sync_enabled # "False"

\* Minutes between the stored last_run and now.
ElapsedMinutes == dueNow - candidate.auto_sync_last_run

\* C11: should_auto_sync_playlist returns false, whatever last_run and the
\* elapsed time, when the playlist has no auto-sync URL, or no positive
\* interval, or auto_sync_enabled explicitly false; a null auto_sync_enabled
\* does not by itself make the playlist not due (with URL and interval it
\* is due when it never ran or its interval has elapsed).
C11_GatesDecideNotDue ==
    dueAnswer # <<>> =>
        /\ candidate.auto_sync_url = "" => dueAnswer[1] = FALSE
        /\ candidate.auto_sync_interval_minutes <= 0 => dueAnswer[1] = FALSE
        /\ candidate.auto_sync_enabled = "False" => dueAnswer[1] = FALSE
        /\ (/\ candidate.auto_sync_enabled = NoneFlag
            /\ candidate.auto_sync_url # ""
            /\ candidate.auto_sync_interval_minutes > 0
            /\ \/ candidate.auto_sync_last_run = None
               \/ ElapsedMinutes >= candidate.auto_sync_interval_minutes)
           => dueAnswer[1] = TRUE

\* C11 witness: a playlist with URL and interval 30 whose last run is more
\* than 30 minutes ago, disabled explicitly, was found not due.
C11_Witness ==
    /\ dueAnswer = <<FALSE>>
    /\ candidate.auto_sync_url # ""
    /\ candidate.auto_sync_interval_minutes = 30
    /\ candidate.auto_sync_enabled = "False"
    /\ candidate.auto_sync_last_run # None
    /\ ElapsedMinutes > 30

\* C12: for a playlist that passes the URL/interval/enabled gates, it is due
\* if it never ran, and otherwise it is due if and only if the minutes
\* elapsed between its stored last_run and now are >= its interval (with
\* interval 30: 31 minutes ago is due, 29 is not, exactly 30 is due).
C12_DueIffIntervalElapsed ==
    (dueAnswer # <<>> /\ PassesGates) =>
        /\ candidate.auto_sync_last_run = None => dueAnswer[1] = TRUE
        /\ candidate.auto_sync_last_run # None =>
             (dueAnswer[1] = TRUE
                 <=> ElapsedMinutes >= candidate.auto_sync_interval_minutes)
        /\ (candidate.auto_sync_last_run # None
              /\ candidate.auto_sync_interval_minutes = 30) =>
             /\ ElapsedMinutes = 31 => dueAnswer[1] = TRUE
             /\ ElapsedMinutes = 30 => dueAnswer[1] = TRUE
             /\ ElapsedMinutes = 29 => dueAnswer[1] = FALSE

\* C12 witness: interval 30 and a last run exactly 30 minutes ago, found
\* due.
C12_Witness ==
    /\ dueAnswer = <<TRUE>>
    /\ PassesGates
    /\ candidate.auto_sync_interval_minutes = 30
    /\ candidate.auto_sync_last_run # None
    /\ ElapsedMinutes = 30

(***************************************************************************)
(* Ingestion: metadata records, tracks and the merge (app.py; the same     *)
(* code is in library_service.py, lines 46-61 and 205-248)                 *)
(***************************************************************************)

\* An absent URL (None or the empty string).  A URL is written
\* <<shape, id>>: the link shape and the item id it carries.
NoUrl == <<>>

DEFAULT_COVER == "/static/images/cover-rise-up.svg"

\* _parse_track_from_info: the source_url argument when given, else the
\* record's own page URL; fallback literals for absent text fields.  The
\* cover is the default cover at this point.  The id is the extractor's id
\* of the record behind the origin tag; every record yt-dlp prints carries
\* one, so the uuid default of info.get("id", ...) is not drawn.
parse_track_from_info(info, src) ==
    [id |-> <<"yt", info.id>>,
     title |-> IF info.title = "" THEN "Unknown Title" ELSE info.title,
     artist |-> IF info.artist = "" THEN "Unknown Artist" ELSE info.artist,
     album |-> IF info.album = "" THEN "Unknown Album" ELSE info.album,
     cover |-> DEFAULT_COVER,
     duration |-> IF info.duration = "" THEN "--" ELSE info.duration,
     bpm |-> IF info.bpm = "" THEN "0" ELSE info.bpm,
     genre |-> IF info.genre = "" THEN "Unknown" ELSE info.genre,
     year |-> IF info.year = "" THEN "0" ELSE info.year,
     source_url |-> IF src # NoUrl THEN src ELSE info.webpage_url]

\* _resolve_thumbnail_path(info): the thumbnail file yt-dlp left beside the
\* media file, "" when there is none.
resolve_thumbnail_path(info) == info.thumbnail_file

\* _store_downloaded_tracks, lines 719-722: the Track of one record, with
\* the resolved cover when there is one.
TrackOfInfo(info, src) ==
    [parse_track_from_info(info, src) EXCEPT
        !.cover = IF resolve_thumbnail_path(info) # ""
                  THEN resolve_thumbnail_path(info) ELSE @]

\* Lines 723 and 726: {**asdict(track), "file_path": str(file_path)}; the
\* file path is built from the record's own id (as is file_url, left out).
NewEntry(track, info) ==
    [id |-> track.id, title |-> track.title, artist |-> track.artist,
     album |-> track.album, cover |-> track.cover, duration |-> track.duration,
     bpm |-> track.bpm, genre |-> track.genre, year |-> track.year,
     source_url |-> track.source_url, file_path |-> <<"mp3", info.id>>]

\* Mutant of MergeEntry: the stored entry takes the cover and the source
\* URL of the new record whenever the record has them.
MergeEntryOverwriting(entry, track, resolved_cover) ==
    [entry EXCEPT
        !.cover = IF resolved_cover # "" THEN resolved_cover ELSE @,
        !.source_url = IF track.source_url # NoUrl THEN track.source_url ELSE @]

\* Mutant of MergeEntry: the stored entry is replaced by the new record's
\* fields.
MergeEntryReplacing(entry, track, resolved_cover) ==
    [track EXCEPT !.cover = IF entry.cover \in {"", DEFAULT_COVER}
                             THEN track.cover ELSE entry.cover,
                  !.source_url = IF entry.source_url = NoUrl
                                  THEN track.source_url ELSE entry.source_url]
        @@ [file_path |-> entry.file_path]

\* Lines 731-734: the two fill-if-empty updates of an entry already stored.
MergeEntry(entry, track, resolved_cover) ==
    [entry EXCEPT
        !.cover = IF resolved_cover # "" /\ entry.cover \in {"", DEFAULT_COVER}
                  THEN resolved_cover ELSE @,
        !.source_url = IF track.source_url # NoUrl /\ entry.source_url = NoUrl
                       THEN track.source_url ELSE @]

\* The ids of a track list: the keys of track_map (line 717).
TrackIdsOf(tracks) == {tracks[k].id : k \in 1 .. Len(tracks)}

\* track_map[id]: a dict built from a list keeps, for one key, the last
\* item of the list.
EntryIndex(tracks, id) ==
    CHOOSE k \in 1 .. Len(tracks) :
        /\ tracks[k].id = id
        /\ \A j \in (k + 1) .. Len(tracks) : tracks[j].id # id

\* Mutant of IdKnown: no id is ever found in track_map.
IdNeverKnown(known, id) == FALSE

\* Line 725: `track.id not in track_map`, negated.
IdKnown(known, id) == id \in known

\* Lines 719-734, one iteration of the loop: append a new entry, or merge
\* into the stored one.  known is the key set of track_map.
StoreOne(tracks, known, info, src) ==
    LET track == TrackOfInfo(info, src) IN
      IF ~IdKnown(known, track.id)
      THEN Append(tracks, NewEntry(track, info))
      ELSE [tracks EXCEPT ![EntryIndex(tracks, track.id)] =
               MergeEntry(@, track, resolve_thumbnail_path(info))]

\* Mutant of AppendIds: every id is appended.
AppendIdsAlways(current_ids, ids) == current_ids \o ids

\* _append_tracks_to_playlist, lines 463-466: append each id that is not
\* yet in current_ids, in the order of ids.
RECURSIVE AppendIds(_, _)
AppendIds(current_ids, ids) ==
    IF ids = <<>> THEN current_ids
    ELSE AppendIds(
           IF \E k \in 1 .. Len(current_ids) : current_ids[k] = Head(ids)
           THEN current_ids ELSE Append(current_ids, Head(ids)),
           Tail(ids))

\* next((item for item in playlists if item.get("id") == playlist_id), None):
\* the position of the first playlist with that id, 0 for None.
FindPlaylist(docu, playlist_id) ==
    IF \E k \in 1 .. Len(docu.playlists) : docu.playlists[k].id = playlist_id
    THEN CHOOSE k \in 1 .. Len(docu.playlists) :
           /\ docu.playlists[k].id = playlist_id
           /\ \A j \in 1 .. (k - 1) : docu.playlists[j].id # playlist_id
    ELSE 0

\* _append_tracks_to_playlist on a document: nothing without a playlist id
\* or for an unknown playlist.
append_tracks_to_playlist(docu, playlist_id, ids) ==
    IF playlist_id = "" THEN docu
    ELSE IF FindPlaylist(docu, playlist_id) = 0 THEN docu
    ELSE [docu EXCEPT !.playlists[FindPlaylist(docu, playlist_id)].track_ids =
              AppendIds(@, ids)]

(***************************************************************************)
(* One sync pass: _sync_playlist_with_remote (app.py, lines 260-300; the   *)
(* same code is sync_service.sync_playlist_with_remote)                    *)
(***************************************************************************)

Videos == 1 .. NumVideos

\* Link shapes of one item on a recognized video host: the /watch?v=<id>
\* form and the short-link form.
Shapes == {"watch", "short"}

RawUrls == Shapes \X Videos

\* _normalize_source_url on the links of a recognized video host: nothing
\* for an absent URL, else the canonical watch URL of the item id.
normalize_source_url(url) ==
    IF url = NoUrl THEN NoUrl ELSE <<"watch", url[2]>>

\* _entry_to_source_url: the entry's URL when it has one.
entry_to_source_url(entry) == entry.url

\* Lines 270-275: the normalized URL of every entry that has one, in
\* listing order.
RECURSIVE EntryUrls(_)
EntryUrls(entries) ==
    IF entries = <<>> THEN <<>>
    ELSE (IF normalize_source_url(entry_to_source_url(Head(entries))) # NoUrl
          THEN <<normalize_source_url(entry_to_source_url(Head(entries)))>>
          ELSE <<>>)
         \o EntryUrls(Tail(entries))

\* _collect_playlist_source_urls: the normalized source URLs of the tracks
\* the playlist references, skipping ids without a track and tracks without
\* a source URL.
collect_source_urls(playlist, docu) ==
    {normalize_source_url(docu.tracks[EntryIndex(docu.tracks, id)].source_url) :
        id \in {playlist.track_ids[k] : k \in 1 .. Len(playlist.track_ids)}
                  \cap TrackIdsOf(docu.tracks)}
      \ {NoUrl}

\* The metadata record yt-dlp prints for item v.
PassInfo(v) ==
    [id |-> v, title |-> "title", artist |-> "artist", album |-> "",
     duration |-> "3:00", bpm |-> "", genre |-> "", year |-> "2020",
     thumbnail_file |-> "", webpage_url |-> <<"watch", v>>]

\* The stored entry of item v, ingested earlier from a short link (odd v)
\* or from a watch link (even v).
StoredTrack(v) ==
    NewEntry(TrackOfInfo(PassInfo(v),
                         <<IF v % 2 = 1 THEN "short" ELSE "watch", v>>),
             PassInfo(v))

\* An uploaded track: it has no source URL.
LocalTrack ==
    [StoredTrack(1) EXCEPT !.id = <<"local", 0>>, !.source_url = NoUrl]

\* A document whose playlist "p1" references the stored tracks of items
\* 1..k, an uploaded track and an id without a track.
PassLibrary(k, u) ==
    [tracks |-> [i \in 1 .. (k + 1) |->
                    IF i <= k THEN StoredTrack(i) ELSE LocalTrack],
     playlists |-> <<[id |-> "p1",
                      auto_sync_url |-> u,
                      track_ids |-> [i \in 1 .. (k + 2) |->
                                        IF i <= k THEN <<"yt", i>>
                                        ELSE IF i = k + 1 THEN <<"local", 0>>
                                        ELSE <<"yt", 0>>],
                      auto_sync_last_run |-> None,
                      auto_sync_last_error |-> <<>>]>>]

\* The listings _fetch_flat_playlist_entries can return: up to MaxRemote
\* entries, each with a URL of some shape or without one.
RemoteListings ==
    UNION {[1 .. n -> [url : RawUrls \cup {NoUrl}]] : n \in 0 .. MaxRemote}

\* _ingest_from_url(url, playlist_id) when the download succeeds:
\* _store_downloaded_tracks of the one record, then
\* _append_tracks_to_playlist.
ingest_from_url(docu, url, playlist_id) ==
    append_tracks_to_playlist(
        [docu EXCEPT !.tracks = StoreOne(@, TrackIdsOf(@), PassInfo(url[2]), url)],
        playlist_id,
        <<TrackOfInfo(PassInfo(url[2]), url).id>>)

\* f"{url}: {exc}", as a sequence of tokens.
ErrorString(url) == <<url, <<": yt-dlp failed", 0>>>>

\* "\n".join(strings), as a sequence of tokens; "" is <<>>.
RECURSIVE JoinLines(_)
JoinLines(strings) ==
    IF strings = <<>> THEN <<>>
    ELSE IF Len(strings) = 1 THEN strings[1]
    ELSE strings[1] \o <<<<"\n", 0>>>> \o JoinLines(Tail(strings))

\* A call _sync_playlist_with_remote(ptarget) about to start, on a document
\* and against a listing; everything else is at rest.
InitPass ==
    /\ plib \in {PassLibrary(k, u) : k \in 0 .. NumVideos, u \in {"", "list"}}
    /\ plib0 = plib
    /\ remote \in RemoteListings
    /\ ptarget \in {"p1", "ghost"}
    /\ ppc = "call"
    /\ missing_urls = <<>>
    /\ midx = 0
    /\ perrors = <<>>
    /\ added_tracks = <<>>
    /\ listCalls = 0
    /\ ingestCalls = <<>>
    /\ presult = <<>>
    /\ caller = "app"
    /\ fails = {}
    /\ nextIdx = 0
    /\ enqueuePc = "submit"
    /\ active_task = [total |-> NumEntries, completed |-> 0, failed |-> 0,
                      results |-> {}]
    /\ pc = [e \in Entries |-> "new"]
    /\ tmp = [e \in Entries |-> 0]
    /\ incC = [e \in Entries |-> 0]
    /\ incF = [e \in Entries |-> 0]
    /\ cbCalls = [e \in Entries |-> 0]
    /\ future = [e \in Entries |-> "none"]
    /\ clock = 0
    /\ lock = None
    /\ library = InitialLibrary
    /\ spc = [q \in 0 .. NumManual |-> IF q = 0 THEN "sleep" ELSE "idle"]
    /\ target = [q \in 0 .. NumManual |-> None]
    /\ data = [q \in 0 .. NumManual |-> NoDoc]
    /\ missing = [q \in 0 .. NumManual |-> <<>>]
    /\ errors = [q \in 0 .. NumManual |-> <<>>]
    /\ dueIds = <<>>
    /\ dueIdx = 0
    /\ attempted = <<>>
    /\ tickErrs = {}
    /\ written = [p \in 1 .. NumPlaylists |-> <<>>]
    /\ candidate = IdlePlaylist
    /\ dueNow = 0
    /\ dueAnswer = <<>>
    /\ mdata = EmptyLibrary
    /\ mpc = "idle"
    /\ source_url = ""
    /\ track_map = {}
    /\ todo = 0
    /\ lastKind = "none"
    /\ lastDiff = {}
    /\ track_ids = <<>>
    /\ before_ids = <<>>
    /\ given_ids = <<>>
    /\ given_playlist = ""
    /\ apc = "idle"
    /\ disk = EmptyLibrary
    /\ ipc = "idle"
    /\ idata = EmptyLibrary
    /\ iinfos = <<>>
    /\ iplaylist = ""
    /\ loads = 0
    /\ saves = 0
    /\ others = 0
    /\ between = 0
    /\ kind = "none"
    /\ branch = "none"
    /\ backend = "threadpool"
    /\ tool = "ok"
    /\ storing = "ok"
    /\ precheck = "ok"
    /\ listing = 0
    /\ bfails = {}
    /\ gpc = "end"
    /\ wpc = <<>>
    /\ wtmp = <<>>
    /\ completed = 0
    /\ failed = 0
    /\ downloaded_tracks = {}
    /\ stored = {}
    /\ dispatched = 0
    /\ terminals = 0
    /\ trailing = 0
    /\ lastEvent = NoEvent
    /\ escaped = FALSE
    /\ curl = NoLink
    /\ verdict = <<>>
    /\ nshape = "none"
    /\ nid = <<>>
    /\ nurl = <<>>
    /\ nout = <<>>
    /\ uplaylist = <<>>
    /\ upayload = <<>>
    /\ ustatus = "idle"
    /\ rentry = <<>>
    /\ rurls = <<>>
    /\ eop = "none"
    /\ epc = "off"
    /\ edata = NoDoc
    /\ ewhen = <<>>
    /\ tplaylists = <<>>
    /\ tnow = 0
    /\ ttick = <<>>
    /\ download_queue = <<>>
    /\ hashes = <<>>
    /\ task_id = 0
    /\ looping = FALSE
    /\ handled = <<>>

\* Mutant of PassLoad: the auto-sync URL is not checked.
PassLoadWithoutUrlCheck ==
    /\ ppc = "call"
    /\ ppc' = IF FindPlaylist(plib, ptarget) = 0 THEN "raised" ELSE "fetch"
    /\ UNCHANGED <<plib, plib0, remote, ptarget, missing_urls, midx, perrors,
                   added_tracks, listCalls, ingestCalls, presult>>
    /\ UNCHANGED <<queueVars, syncVars, dueVars, mergeVars, appendVars, callVars>>

\* Lines 261-268: load the document, find the playlist, raise RuntimeError
\* when there is no such playlist or it has no auto-sync URL.
PassLoad ==
    /\ ppc = "call"
    /\ ppc' = IF FindPlaylist(plib, ptarget) = 0 THEN "raised"
              ELSE IF plib.playlists[FindPlaylist(plib, ptarget)].auto_sync_url = ""
              THEN "raised"
              ELSE "fetch"
    /\ UNCHANGED <<plib, plib0, remote, ptarget, missing_urls, midx, perrors,
                   added_tracks, listCalls, ingestCalls, presult>>
    /\ UNCHANGED <<queueVars, syncVars, dueVars, mergeVars, appendVars, callVars>>

\* Lines 269-279: _fetch_flat_playlist_entries returns the listing or raises
\* (yt-dlp exits non-zero); entry_urls, existing_urls and missing_urls are
\* computed from the listing and the document loaded at line 261.
PassFetch ==
    /\ ppc = "fetch"
    /\ listCalls' = listCalls + 1
    /\ \E listed \in BOOLEAN :
         IF listed
         THEN /\ missing_urls' =
                    MissingUrls(EntryUrls(remote),
                        collect_source_urls(
                            plib.playlists[FindPlaylist(plib, ptarget)], plib))
              /\ midx' = 1
              /\ ppc' = "ingest"
         ELSE /\ ppc' = "raised"
              /\ UNCHANGED <<missing_urls, midx>>
    /\ UNCHANGED <<plib, plib0, remote, ptarget, perrors, added_tracks,
                   ingestCalls, presult>>
    /\ UNCHANGED <<queueVars, syncVars, dueVars, mergeVars, appendVars, callVars>>

\* Mutant of PassIngest: an exception of _ingest_from_url leaves the call.
PassIngestUncaught ==
    /\ ppc = "ingest"
    /\ midx <= Len(missing_urls)
    /\ \E ok \in BOOLEAN :
         /\ ingestCalls' = Append(ingestCalls, [url |-> missing_urls[midx], ok |-> ok])
         /\ IF ok
            THEN /\ plib' = ingest_from_url(plib, missing_urls[midx], ptarget)
                 /\ added_tracks' = Append(added_tracks, <<"yt", missing_urls[midx][2]>>)
                 /\ midx' = midx + 1
                 /\ UNCHANGED <<perrors, ppc>>
            ELSE /\ ppc' = "raised"
                 /\ UNCHANGED <<plib, added_tracks, perrors, midx>>
    /\ UNCHANGED <<plib0, remote, ptarget, missing_urls, listCalls, presult>>
    /\ UNCHANGED <<queueVars, syncVars, dueVars, mergeVars, appendVars, callVars>>

\* Lines 280-285, one iteration: _ingest_from_url(url, playlist_id) stores
\* the track and extends added_tracks, or raises and the error string is
\* appended to errors.
PassIngest ==
    /\ ppc = "ingest"
    /\ midx <= Len(missing_urls)
    /\ \E ok \in BOOLEAN :
         /\ ingestCalls' = Append(ingestCalls, [url |-> missing_urls[midx], ok |-> ok])
         /\ IF ok
            THEN /\ plib' = ingest_from_url(plib, missing_urls[midx], ptarget)
                 /\ added_tracks' = Append(added_tracks, <<"yt", missing_urls[midx][2]>>)
                 /\ UNCHANGED perrors
            ELSE /\ perrors' = Append(perrors, ErrorString(missing_urls[midx]))
                 /\ UNCHANGED <<plib, added_tracks>>
    /\ midx' = midx + 1
    /\ UNCHANGED <<plib0, remote, ptarget, ppc, missing_urls, listCalls, presult>>
    /\ UNCHANGED <<queueVars, syncVars, dueVars, mergeVars, appendVars, callVars>>

\* Lines 286-300, after the loop: re-load the document, set the playlist's
\* auto_sync_last_run and auto_sync_last_error, save, return the result.
PassStatus ==
    /\ ppc = "ingest"
    /\ midx > Len(missing_urls)
    /\ plib' = IF FindPlaylist(plib, ptarget) = 0 THEN plib
               ELSE [plib EXCEPT
                       !.playlists[FindPlaylist(plib, ptarget)].auto_sync_last_run = clock,
                       !.playlists[FindPlaylist(plib, ptarget)].auto_sync_last_error =
                           JoinLines(perrors)]
    /\ presult' = <<[missing_count |-> Len(missing_urls),
                     added_count |-> Len(added_tracks),
                     errors |-> perrors]>>
    /\ ppc' = "returned"
    /\ UNCHANGED <<plib0, remote, ptarget, missing_urls, midx, perrors,
                   added_tracks, listCalls, ingestCalls>>
    /\ UNCHANGED <<queueVars, syncVars, dueVars, mergeVars, appendVars, callVars>>

NextPass ==
    \/ PassLoad
    \/ PassFetch
    \/ PassIngest
    \/ PassStatus

SpecPass == InitPass /\ [][NextPass]_vars

(***************************************************************************)
(* Claims about one sync pass (checked under SpecPass)                     *)
(***************************************************************************)

\* The playlist the call names, as it was when the call started (position
\* in the playlist list, 0 when there is none).
TargetAtStart ==
    IF \E k \in 1 .. Len(plib0.playlists) : plib0.playlists[k].id = ptarget
    THEN CHOOSE k \in 1 .. Len(plib0.playlists) : plib0.playlists[k].id = ptarget
    ELSE 0

\* The existing set: canonical URLs of the tracks with a source URL that
\* the playlist referenced when the call started.
ExistingAtStart ==
    IF TargetAtStart = 0 THEN {}
    ELSE {<<"watch", plib0.tracks[k].source_url[2]>> :
            k \in {j \in 1 .. Len(plib0.tracks) :
                     /\ plib0.tracks[j].source_url # NoUrl
                     /\ \E i \in 1 .. Len(plib0.playlists[TargetAtStart].track_ids) :
                          plib0.playlists[TargetAtStart].track_ids[i]
                              = plib0.tracks[j].id}}

\* The candidate set: canonical URLs of the listed entries that have a URL.
Candidates ==
    {<<"watch", remote[k].url[2]>> :
        k \in {j \in 1 .. Len(remote) : remote[j].url # NoUrl}}

\* The URLs the ingestion was called with so far.
IngestedUrls == {ingestCalls[i].url : i \in 1 .. Len(ingestCalls)}

\* C13: a sync pass ingests only the remote entries missing from the
\* playlist: no URL of the existing set is ever ingested, every ingested URL
\* is a candidate, a pass that returns has ingested every candidate outside
\* the existing set, and with existing {A, B} and a listing of A, B, C (once
\* each) it reports missing_count = 1 and ingests C only.
C13_OnlyMissingIngested ==
    /\ IngestedUrls \cap ExistingAtStart = {}
    /\ IngestedUrls \subseteq Candidates
    /\ ppc = "returned" => IngestedUrls = Candidates \ ExistingAtStart
    /\ (/\ ppc = "returned"
        /\ ExistingAtStart = {<<"watch", 1>>, <<"watch", 2>>}
        /\ Candidates = {<<"watch", 1>>, <<"watch", 2>>, <<"watch", 3>>}
        /\ Len(EntryUrls(remote)) = 3)
       => /\ presult[1].missing_count = 1
          /\ Len(ingestCalls) = 1
          /\ ingestCalls[1].url = <<"watch", 3>>

\* C13 witness: a pass returned for existing {A, B} and a listing of A, B
\* and C: missing_count 1, one ingestion, of C.
C13_Witness ==
    /\ ppc = "returned"
    /\ ExistingAtStart = {<<"watch", 1>>, <<"watch", 2>>}
    /\ Candidates = {<<"watch", 1>>, <<"watch", 2>>, <<"watch", 3>>}
    /\ presult[1].missing_count = 1
    /\ Len(ingestCalls) = 1
    /\ ingestCalls[1].url = <<"watch", 3>>

\* C14: the candidates of a pass form a set: missing_count is the size of
\* the set difference candidates - existing, and no URL is ingested more
\* than once in a pass, also when the listing names it several times or
\* under several link shapes.
C14_MissingIsASetDifference ==
    /\ \A i, j \in 1 .. Len(ingestCalls) :
         i # j => ingestCalls[i].url # ingestCalls[j].url
    /\ ppc = "returned" =>
         presult[1].missing_count = Cardinality(Candidates \ ExistingAtStart)

\* The error strings of the failed ingestions of calls, in call order.
RECURSIVE ExpectedErrors(_)
ExpectedErrors(calls) ==
    IF calls = <<>> THEN <<>>
    ELSE (IF Head(calls).ok THEN <<>>
          ELSE <<<<Head(calls).url, <<": yt-dlp failed", 0>>>>>>)
         \o ExpectedErrors(Tail(calls))

\* C15: per-item ingestion failures are soft: the loop goes through the
\* missing URLs in order whatever fails, a failed ingestion never makes the
\* call raise, and when the call returns every missing URL was attempted,
\* the result carries one "<url>: <message>" string per failed ingestion,
\* and the persisted playlist has auto_sync_last_error = the newline-join
\* of these strings (empty when none failed) and auto_sync_last_run = the
\* time of the pass.
C15_IngestionFailuresAreSoft ==
    /\ \A i \in 1 .. Len(ingestCalls) :
         i <= Len(missing_urls) /\ ingestCalls[i].url = missing_urls[i]
    /\ ppc = "raised" => ingestCalls = <<>>
    /\ ppc = "returned" =>
         /\ Len(ingestCalls) = Len(missing_urls)
         /\ presult # <<>>
         /\ presult[1].errors = ExpectedErrors(ingestCalls)
         /\ plib.playlists[TargetAtStart].auto_sync_last_error
                = JoinLines(ExpectedErrors(ingestCalls))
         /\ (\A i \in 1 .. Len(ingestCalls) : ingestCalls[i].ok) =>
                plib.playlists[TargetAtStart].auto_sync_last_error = <<>>
         /\ plib.playlists[TargetAtStart].auto_sync_last_run = clock

\* C15 witness: a pass returned after an ingestion that failed and a later
\* one that succeeded.
C15_Witness ==
    /\ ppc = "returned"
    /\ \E i, j \in 1 .. Len(ingestCalls) :
         i < j /\ ~ingestCalls[i].ok /\ ingestCalls[j].ok
    /\ plib.playlists[TargetAtStart].auto_sync_last_error # <<>>

\* The call names no playlist of the document, or one without auto-sync
\* URL.
HardFailure ==
    \/ TargetAtStart = 0
    \/ plib0.playlists[TargetAtStart].auto_sync_url = ""

\* C16: on a nonexistent playlist id or a playlist without auto-sync URL
\* the call raises: it returns no result, calls neither the collection
\* listing nor any ingestion, and leaves the persisted document unchanged.
C16_HardFailureLeavesNoTrace ==
    (HardFailure /\ ppc # "call") =>
        /\ ppc = "raised"
        /\ presult = <<>>
        /\ listCalls = 0
        /\ ingestCalls = <<>>
        /\ plib = plib0

\* C16 witness: the call raised for an existing playlist without auto-sync
\* URL, while the collection lists items the playlist lacks.
C16_Witness ==
    /\ ppc = "raised"
    /\ TargetAtStart # 0
    /\ plib0.playlists[TargetAtStart].auto_sync_url = ""
    /\ Candidates \ ExistingAtStart # {}

(***************************************************************************)
(* Ingestions in sequence: _store_downloaded_tracks (app.py, lines         *)
(* 711-738), one loop iteration per step, without playlist id              *)
(***************************************************************************)

Items == 1 .. NumItems

\* Values of the text fields of a record: absent, or present.
Revs == {"", "b"}

\* Thumbnail files yt-dlp may have left for a record: none, or one of two.
Thumbs == {"", "/media/a.webp", "/media/b.jpg"}

\* The source_url argument of a call: absent, or the URL that was imported.
SourceArgs == {NoUrl, <<"list", 0>>}

\* The metadata record of item i whose text fields are r, with thumbnail
\* file th, and with its own page URL when w.
MergeInfo(i, r, th, w) ==
    [id |-> i, title |-> r, artist |-> r, album |-> r, duration |-> r,
     bpm |-> r, genre |-> r, year |-> r, thumbnail_file |-> th,
     webpage_url |-> IF w THEN <<"watch", i>> ELSE NoUrl]

MergeInfos ==
    {MergeInfo(i, r, th, w) : i \in Items, r \in Revs, th \in Thumbs, w \in BOOLEAN}

\* A track stored by an earlier version: its cover is the empty string and
\* it has no source URL.
LegacyTrack ==
    [NewEntry(TrackOfInfo(MergeInfo(1, "b", "", FALSE), NoUrl),
              MergeInfo(1, "b", "", FALSE))
        EXCEPT !.cover = ""]

\* The track lists the sequence of ingestions starts from: none, the
\* legacy track, or an uploaded track followed by the legacy track.
InitialTrackLists == {<<>>, <<LegacyTrack>>, <<LocalTrack, LegacyTrack>>}

\* The field groups in which a stored entry differs from the Track of the
\* record that was just stored or merged.
DiffOf(entry, track) ==
    (IF \/ entry.title # track.title
        \/ entry.artist # track.artist
        \/ entry.album # track.album
        \/ entry.duration # track.duration
        \/ entry.bpm # track.bpm
        \/ entry.genre # track.genre
        \/ entry.year # track.year
     THEN {"meta"} ELSE {})
    \cup (IF entry.cover # track.cover THEN {"cover"} ELSE {})
    \cup (IF entry.source_url # track.source_url THEN {"source_url"} ELSE {})

\* A library document between two ingestions; everything else is at rest.
InitMerge ==
    /\ mdata \in {[tracks |-> t, playlists |-> <<>>] : t \in InitialTrackLists}
    /\ mpc = "idle"
    /\ source_url = NoUrl
    /\ track_map = {}
    /\ todo = 0
    /\ lastKind = "none"
    /\ lastDiff = {}
    /\ caller = "app"
    /\ fails = {}
    /\ nextIdx = 0
    /\ enqueuePc = "submit"
    /\ active_task = [total |-> NumEntries, completed |-> 0, failed |-> 0,
                      results |-> {}]
    /\ pc = [e \in Entries |-> "new"]
    /\ tmp = [e \in Entries |-> 0]
    /\ incC = [e \in Entries |-> 0]
    /\ incF = [e \in Entries |-> 0]
    /\ cbCalls = [e \in Entries |-> 0]
    /\ future = [e \in Entries |-> "none"]
    /\ clock = 0
    /\ lock = None
    /\ library = InitialLibrary
    /\ spc = [q \in 0 .. NumManual |-> IF q = 0 THEN "sleep" ELSE "idle"]
    /\ target = [q \in 0 .. NumManual |-> None]
    /\ data = [q \in 0 .. NumManual |-> NoDoc]
    /\ missing = [q \in 0 .. NumManual |-> <<>>]
    /\ errors = [q \in 0 .. NumManual |-> <<>>]
    /\ dueIds = <<>>
    /\ dueIdx = 0
    /\ attempted = <<>>
    /\ tickErrs = {}
    /\ written = [p \in 1 .. NumPlaylists |-> <<>>]
    /\ candidate = IdlePlaylist
    /\ dueNow = 0
    /\ dueAnswer = <<>>
    /\ plib = EmptyLibrary
    /\ plib0 = EmptyLibrary
    /\ remote = <<>>
    /\ ptarget = ""
    /\ ppc = "idle"
    /\ missing_urls = <<>>
    /\ midx = 0
    /\ perrors = <<>>
    /\ added_tracks = <<>>
    /\ listCalls = 0
    /\ ingestCalls = <<>>
    /\ presult = <<>>
    /\ track_ids = <<>>
    /\ before_ids = <<>>
    /\ given_ids = <<>>
    /\ given_playlist = ""
    /\ apc = "idle"
    /\ disk = EmptyLibrary
    /\ ipc = "idle"
    /\ idata = EmptyLibrary
    /\ iinfos = <<>>
    /\ iplaylist = ""
    /\ loads = 0
    /\ saves = 0
    /\ others = 0
    /\ between = 0
    /\ kind = "none"
    /\ branch = "none"
    /\ backend = "threadpool"
    /\ tool = "ok"
    /\ storing = "ok"
    /\ precheck = "ok"
    /\ listing = 0
    /\ bfails = {}
    /\ gpc = "end"
    /\ wpc = <<>>
    /\ wtmp = <<>>
    /\ completed = 0
    /\ failed = 0
    /\ downloaded_tracks = {}
    /\ stored = {}
    /\ dispatched = 0
    /\ terminals = 0
    /\ trailing = 0
    /\ lastEvent = NoEvent
    /\ escaped = FALSE
    /\ curl = NoLink
    /\ verdict = <<>>
    /\ nshape = "none"
    /\ nid = <<>>
    /\ nurl = <<>>
    /\ nout = <<>>
    /\ uplaylist = <<>>
    /\ upayload = <<>>
    /\ ustatus = "idle"
    /\ rentry = <<>>
    /\ rurls = <<>>
    /\ eop = "none"
    /\ epc = "off"
    /\ edata = NoDoc
    /\ ewhen = <<>>
    /\ tplaylists = <<>>
    /\ tnow = 0
    /\ ttick = <<>>
    /\ download_queue = <<>>
    /\ hashes = <<>>
    /\ task_id = 0
    /\ looping = FALSE
    /\ handled = <<>>

\* Lines 711-717: a call with its source_url argument and a list of n
\* infos; load the document and build track_map.
IngestBegin ==
    /\ mpc = "idle"
    /\ \E src \in SourceArgs, n \in 1 .. MaxInfos :
         /\ source_url' = src
         /\ todo' = n
    /\ track_map' = TrackIdsOf(mdata.tracks)
    /\ mpc' = "loop"
    /\ lastKind' = "none"
    /\ lastDiff' = {}
    /\ UNCHANGED mdata
    /\ UNCHANGED <<queueVars, syncVars, dueVars, passVars, appendVars, callVars>>

\* Lines 718-735, one iteration of the loop over infos.
IngestInfo(info) ==
    /\ mpc = "loop"
    /\ todo > 0
    /\ mdata' = [mdata EXCEPT !.tracks = StoreOne(@, track_map, info, source_url)]
    /\ track_map' = IF IdKnown(track_map, TrackOfInfo(info, source_url).id)
                    THEN track_map
                    ELSE track_map \cup {TrackOfInfo(info, source_url).id}
    /\ todo' = todo - 1
    /\ lastKind' = IF IdKnown(track_map, TrackOfInfo(info, source_url).id)
                   THEN "merge" ELSE "new"
    /\ lastDiff' = DiffOf(
           mdata'.tracks[EntryIndex(mdata'.tracks, TrackOfInfo(info, source_url).id)],
           TrackOfInfo(info, source_url))
    /\ UNCHANGED <<mpc, source_url>>
    /\ UNCHANGED <<queueVars, syncVars, dueVars, passVars, appendVars, callVars>>

\* Lines 736-738, after the loop: _save_library(data); without playlist id
\* _append_tracks_to_playlist returns at once; return stored_tracks.
IngestSave ==
    /\ mpc = "loop"
    /\ todo = 0
    /\ mpc' = "idle"
    /\ source_url' = NoUrl
    /\ track_map' = {}
    /\ lastKind' = "none"
    /\ lastDiff' = {}
    /\ UNCHANGED <<mdata, todo>>
    /\ UNCHANGED <<queueVars, syncVars, dueVars, passVars, appendVars, callVars>>

NextMerge ==
    \/ IngestBegin
    \/ \E info \in MergeInfos : IngestInfo(info)
    \/ IngestSave

SpecMerge == InitMerge /\ [][NextMerge]_vars

(***************************************************************************)
(* Claims about the merge (checked under SpecMerge)                        *)
(***************************************************************************)

\* A cover that is neither empty nor the default cover.
ConcreteCover(cover) == cover \notin {"", DEFAULT_COVER}

\* C17: re-ingesting a record whose Track id is already in the library
\* changes no field of the stored track other than cover (only from the
\* empty or the default cover to a resolved one) and source_url (only from
\* absent to present): in every step every stored track keeps its place,
\* id, title, artist, album, duration, bpm, genre, year and file_path.
C17_ReingestChangesOnlyCoverAndSource ==
    [][/\ Len(mdata'.tracks) >= Len(mdata.tracks)
       /\ \A k \in 1 .. Len(mdata.tracks) :
            /\ mdata'.tracks[k].id = mdata.tracks[k].id
            /\ mdata'.tracks[k].title = mdata.tracks[k].title
            /\ mdata'.tracks[k].artist = mdata.tracks[k].artist
            /\ mdata'.tracks[k].album = mdata.tracks[k].album
            /\ mdata'.tracks[k].duration = mdata.tracks[k].duration
            /\ mdata'.tracks[k].bpm = mdata.tracks[k].bpm
            /\ mdata'.tracks[k].genre = mdata.tracks[k].genre
            /\ mdata'.tracks[k].year = mdata.tracks[k].year
            /\ mdata'.tracks[k].file_path = mdata.tracks[k].file_path
            /\ mdata'.tracks[k].cover # mdata.tracks[k].cover =>
                 /\ mdata.tracks[k].cover \in {"", DEFAULT_COVER}
                 /\ mdata'.tracks[k].cover \in Thumbs \ {""}
            /\ mdata'.tracks[k].source_url # mdata.tracks[k].source_url =>
                 /\ mdata.tracks[k].source_url = NoUrl
                 /\ mdata'.tracks[k].source_url # NoUrl]_vars

\* C17 witness: a record was just merged into a stored track whose title,
\* artist, album, duration, bpm, genre or year differ from the record's.
C17_Witness ==
    /\ lastKind = "merge"
    /\ "meta" \in lastDiff

\* C18: merge never regresses data: once a stored track has a concrete
\* (non-default) cover, or a source URL, no step of any later ingestion
\* changes or clears that value, whatever the later record carries.
C18_MergeNeverRegresses ==
    [][\A k \in 1 .. Len(mdata.tracks) :
         /\ k <= Len(mdata'.tracks)
         /\ ConcreteCover(mdata.tracks[k].cover) =>
              mdata'.tracks[k].cover = mdata.tracks[k].cover
         /\ mdata.tracks[k].source_url # NoUrl =>
              mdata'.tracks[k].source_url = mdata.tracks[k].source_url]_vars

\* C18 witness: a record was just merged whose cover and source URL both
\* differ from (or are absent where) the stored track has concrete values.
C18_Witness ==
    /\ lastKind = "merge"
    /\ {"cover", "source_url"} \subseteq lastDiff
    /\ \A k \in 1 .. Len(mdata.tracks) :
         /\ ConcreteCover(mdata.tracks[k].cover)
         /\ mdata.tracks[k].source_url # NoUrl

PlaylistTrackIds == {<<"yt", i>> : i \in 1 .. NumIds}

\* The track_ids a playlist may hold before an ingestion: each id at most
\* once, in any order.
DuplicateFreeLists ==
    {ids \in UNION {[1 .. n -> PlaylistTrackIds] : n \in 0 .. NumIds} :
        \A i, j \in 1 .. Len(ids) : i # j => ids[i] # ids[j]}

\* The playlist_id argument: none, the playlist of the document, or the id
\* of no playlist.
PlaylistArgs == {"", "p1", "ghost"}

\* The library document with its one playlist holding ids.
PlaylistDocument(ids) ==
    [tracks |-> <<>>, playlists |-> <<[id |-> "p1", track_ids |-> ids]>>]

InitAppend ==
    /\ track_ids \in DuplicateFreeLists
    /\ before_ids = track_ids
    /\ given_ids = <<>>
    /\ given_playlist = ""
    /\ apc = "idle"
    /\ caller = "app"
    /\ fails = {}
    /\ nextIdx = 0
    /\ enqueuePc = "submit"
    /\ active_task = [total |-> NumEntries, completed |-> 0, failed |-> 0,
                      results |-> {}]
    /\ pc = [e \in Entries |-> "new"]
    /\ tmp = [e \in Entries |-> 0]
    /\ incC = [e \in Entries |-> 0]
    /\ incF = [e \in Entries |-> 0]
    /\ cbCalls = [e \in Entries |-> 0]
    /\ future = [e \in Entries |-> "none"]
    /\ clock = 0
    /\ lock = None
    /\ library = InitialLibrary
    /\ spc = [q \in 0 .. NumManual |-> IF q = 0 THEN "sleep" ELSE "idle"]
    /\ target = [q \in 0 .. NumManual |-> None]
    /\ data = [q \in 0 .. NumManual |-> NoDoc]
    /\ missing = [q \in 0 .. NumManual |-> <<>>]
    /\ errors = [q \in 0 .. NumManual |-> <<>>]
    /\ dueIds = <<>>
    /\ dueIdx = 0
    /\ attempted = <<>>
    /\ tickErrs = {}
    /\ written = [p \in 1 .. NumPlaylists |-> <<>>]
    /\ candidate = IdlePlaylist
    /\ dueNow = 0
    /\ dueAnswer = <<>>
    /\ plib = EmptyLibrary
    /\ plib0 = EmptyLibrary
    /\ remote = <<>>
    /\ ptarget = ""
    /\ ppc = "idle"
    /\ missing_urls = <<>>
    /\ midx = 0
    /\ perrors = <<>>
    /\ added_tracks = <<>>
    /\ listCalls = 0
    /\ ingestCalls = <<>>
    /\ presult = <<>>
    /\ mdata = EmptyLibrary
    /\ mpc = "idle"
    /\ source_url = ""
    /\ track_map = {}
    /\ todo = 0
    /\ lastKind = "none"
    /\ lastDiff = {}
    /\ disk = EmptyLibrary
    /\ ipc = "idle"
    /\ idata = EmptyLibrary
    /\ iinfos = <<>>
    /\ iplaylist = ""
    /\ loads = 0
    /\ saves = 0
    /\ others = 0
    /\ between = 0
    /\ kind = "none"
    /\ branch = "none"
    /\ backend = "threadpool"
    /\ tool = "ok"
    /\ storing = "ok"
    /\ precheck = "ok"
    /\ listing = 0
    /\ bfails = {}
    /\ gpc = "end"
    /\ wpc = <<>>
    /\ wtmp = <<>>
    /\ completed = 0
    /\ failed = 0
    /\ downloaded_tracks = {}
    /\ stored = {}
    /\ dispatched = 0
    /\ terminals = 0
    /\ trailing = 0
    /\ lastEvent = NoEvent
    /\ escaped = FALSE
    /\ curl = NoLink
    /\ verdict = <<>>
    /\ nshape = "none"
    /\ nid = <<>>
    /\ nurl = <<>>
    /\ nout = <<>>
    /\ uplaylist = <<>>
    /\ upayload = <<>>
    /\ ustatus = "idle"
    /\ rentry = <<>>
    /\ rurls = <<>>
    /\ eop = "none"
    /\ epc = "off"
    /\ edata = NoDoc
    /\ ewhen = <<>>
    /\ tplaylists = <<>>
    /\ tnow = 0
    /\ ttick = <<>>
    /\ download_queue = <<>>
    /\ hashes = <<>>
    /\ task_id = 0
    /\ looping = FALSE
    /\ handled = <<>>

\* Lines 711-716: a call of _store_downloaded_tracks with its playlist_id
\* argument; stored_tracks is empty.
AppendBegin(playlist_id) ==
    /\ apc \in {"idle", "done"}
    /\ apc' = "loop"
    /\ given_playlist' = playlist_id
    /\ given_ids' = <<>>
    /\ before_ids' = track_ids
    /\ UNCHANGED track_ids
    /\ UNCHANGED <<queueVars, syncVars, dueVars, passVars, mergeVars, callVars>>

\* Lines 718-735, one iteration of the loop over infos, as far as the
\* playlist is concerned: stored_tracks.append(track).
AppendStored(id) ==
    /\ apc = "loop"
    /\ Len(given_ids) < MaxGiven
    /\ given_ids' = Append(given_ids, id)
    /\ UNCHANGED <<track_ids, before_ids, given_playlist, apc>>
    /\ UNCHANGED <<queueVars, syncVars, dueVars, passVars, mergeVars, callVars>>

\* Line 737 with lines 455-468: _append_tracks_to_playlist(playlist_id,
\* [track.id for track in stored_tracks]) loads the document, extends the
\* playlist's track_ids and saves.  infos is never empty
\* (_download_with_ytdlp raises when it has no record).
AppendToPlaylist ==
    /\ apc = "loop"
    /\ Len(given_ids) >= 1
    /\ track_ids' = append_tracks_to_playlist(
                        PlaylistDocument(track_ids), given_playlist, given_ids
                    ).playlists[1].track_ids
    /\ apc' = "done"
    /\ UNCHANGED <<before_ids, given_ids, given_playlist>>
    /\ UNCHANGED <<queueVars, syncVars, dueVars, passVars, mergeVars, callVars>>

NextAppend ==
    \/ \E playlist_id \in PlaylistArgs : AppendBegin(playlist_id)
    \/ \E id \in PlaylistTrackIds : AppendStored(id)
    \/ AppendToPlaylist

SpecAppend == InitAppend /\ [][NextAppend]_vars

(***************************************************************************)
(* Claims about the playlist's track_ids (checked under SpecAppend)        *)
(***************************************************************************)

\* The position of the first occurrence of id in ids.
FirstAt(ids, id) ==
    CHOOSE k \in 1 .. Len(ids) :
        /\ ids[k] = id
        /\ \A j \in 1 .. (k - 1) : ids[j] # id

\* The set of the elements of a list.
ElementsOf(ids) == {ids[k] : k \in 1 .. Len(ids)}

\* C20: when a playlist id is given, ingestion adds every resulting track
\* id to the playlist's track_ids unless already present: the list never
\* holds an id twice, the ids it held keep their positions, every id of the
\* call is in the list afterwards, and the ids that were not in it follow
\* at the end, once each, in the order of their first occurrence in the
\* input.  Without a playlist id, or with the id of no playlist, the list is
\* left as it was, as it is until the call has stored its tracks.
C20_PlaylistIdsDeduplicated ==
    /\ \A i, j \in 1 .. Len(track_ids) : i # j => track_ids[i] # track_ids[j]
    /\ Len(track_ids) >= Len(before_ids)
    /\ \A k \in 1 .. Len(before_ids) : track_ids[k] = before_ids[k]
    /\ apc = "loop" => track_ids = before_ids
    /\ (apc = "done" /\ given_playlist = "p1") =>
         /\ ElementsOf(given_ids) \subseteq ElementsOf(track_ids)
         /\ \A k \in (Len(before_ids) + 1) .. Len(track_ids) :
              /\ track_ids[k] \in ElementsOf(given_ids)
              /\ track_ids[k] \notin ElementsOf(before_ids)
         /\ \A a, b \in (Len(before_ids) + 1) .. Len(track_ids) :
              a < b => FirstAt(given_ids, track_ids[a])
                         < FirstAt(given_ids, track_ids[b])
    /\ given_playlist # "p1" => track_ids = before_ids

\* C20 witness: an ingestion into the playlist whose stored tracks were one
\* the playlist already held and two it did not, the higher id first: the
\* list grew by these two.
C20_Witness ==
    /\ apc = "done"
    /\ given_playlist = "p1"
    /\ Len(before_ids) >= 1
    /\ Len(given_ids) = 3
    /\ given_ids[2] \in ElementsOf(before_ids)
    /\ given_ids[1] \notin ElementsOf(before_ids)
    /\ given_ids[3] \notin ElementsOf(before_ids)
    /\ given_ids[1][2] > given_ids[3][2]
    /\ Len(track_ids) = Len(before_ids) + 2

(***************************************************************************)
(* One ingestion beside other writers of the document:                     *)
(* _store_downloaded_tracks and _append_tracks_to_playlist (app.py, lines  *)
(* 711-738 and 455-468), delete_track (lines 898-914).  The handlers run   *)
(* in threads; no lock guards the document.                                *)
(***************************************************************************)

\* A document with the stored tracks of items 1..k, all in playlist "p1".
IngestDocument(k) ==
    [tracks |-> [i \in 1 .. k |-> StoredTrack(i)],
     playlists |-> <<[id |-> "p1", track_ids |-> [i \in 1 .. k |-> <<"yt", i>>]]>>]

\* The infos of a call: one to MaxInfos records.
InfoLists == UNION {[1 .. n -> {PassInfo(v) : v \in Videos}] : n \in 1 .. MaxInfos}

\* Lines 718-735: the loop over infos on the loaded track list.
RECURSIVE StoreAll(_, _, _)
StoreAll(tracks, infos, src) ==
    IF infos = <<>> THEN tracks
    ELSE StoreAll(StoreOne(tracks, TrackIdsOf(tracks), Head(infos), src),
                  Tail(infos), src)

\* Mutant of StoredIds: a record whose id was already stored by an earlier
\* record of the same call gets no Track of its own.
StoredIdsOnce(infos, src) ==
    LET all == [k \in 1 .. Len(infos) |-> TrackOfInfo(infos[k], src).id]
        firsts == {k \in 1 .. Len(all) : \A j \in 1 .. (k - 1) : all[j] # all[k]}
    IN [i \in 1 .. Cardinality(firsts) |->
          all[CHOOSE k \in firsts : Cardinality({j \in firsts : j < k}) = i - 1]]

\* stored_tracks as returned (line 738), by id; its ids are also the
\* argument [track.id for track in stored_tracks] of line 737.
StoredIds(infos, src) == [k \in 1 .. Len(infos) |-> TrackOfInfo(infos[k], src).id]

\* A list without the items equal to x.
RECURSIVE Without(_, _)
Without(list, x) ==
    IF list = <<>> THEN <<>>
    ELSE IF Head(list) = x THEN Without(Tail(list), x)
    ELSE <<Head(list)>> \o Without(Tail(list), x)

\* delete_track, lines 899-911, on a document that has the track: the
\* track is popped and its id is filtered out of every playlist.
delete_track(docu, id) ==
    [tracks |-> SelectSeq(docu.tracks, LAMBDA t : t.id # id),
     playlists |-> [p \in 1 .. Len(docu.playlists) |->
                      [docu.playlists[p] EXCEPT !.track_ids = Without(@, id)]]]

InitIngest ==
    /\ disk \in {IngestDocument(k) : k \in 0 .. NumVideos}
    /\ ipc = "call"
    /\ idata = EmptyLibrary
    /\ iinfos \in InfoLists
    /\ iplaylist \in PlaylistArgs
    /\ loads = 0
    /\ saves = 0
    /\ others = 0
    /\ between = 0
    /\ caller = "app"
    /\ fails = {}
    /\ nextIdx = 0
    /\ enqueuePc = "submit"
    /\ active_task = [total |-> NumEntries, completed |-> 0, failed |-> 0,
                      results |-> {}]
    /\ pc = [e \in Entries |-> "new"]
    /\ tmp = [e \in Entries |-> 0]
    /\ incC = [e \in Entries |-> 0]
    /\ incF = [e \in Entries |-> 0]
    /\ cbCalls = [e \in Entries |-> 0]
    /\ future = [e \in Entries |-> "none"]
    /\ clock = 0
    /\ lock = None
    /\ library = InitialLibrary
    /\ spc = [q \in 0 .. NumManual |-> IF q = 0 THEN "sleep" ELSE "idle"]
    /\ target = [q \in 0 .. NumManual |-> None]
    /\ data = [q \in 0 .. NumManual |-> NoDoc]
    /\ missing = [q \in 0 .. NumManual |-> <<>>]
    /\ errors = [q \in 0 .. NumManual |-> <<>>]
    /\ dueIds = <<>>
    /\ dueIdx = 0
    /\ attempted = <<>>
    /\ tickErrs = {}
    /\ written = [p \in 1 .. NumPlaylists |-> <<>>]
    /\ candidate = IdlePlaylist
    /\ dueNow = 0
    /\ dueAnswer = <<>>
    /\ plib = EmptyLibrary
    /\ plib0 = EmptyLibrary
    /\ remote = <<>>
    /\ ptarget = ""
    /\ ppc = "idle"
    /\ missing_urls = <<>>
    /\ midx = 0
    /\ perrors = <<>>
    /\ added_tracks = <<>>
    /\ listCalls = 0
    /\ ingestCalls = <<>>
    /\ presult = <<>>
    /\ mdata = EmptyLibrary
    /\ mpc = "idle"
    /\ source_url = ""
    /\ track_map = {}
    /\ todo = 0
    /\ lastKind = "none"
    /\ lastDiff = {}
    /\ track_ids = <<>>
    /\ before_ids = <<>>
    /\ given_ids = <<>>
    /\ given_playlist = ""
    /\ apc = "idle"
    /\ kind = "none"
    /\ branch = "none"
    /\ backend = "threadpool"
    /\ tool = "ok"
    /\ storing = "ok"
    /\ precheck = "ok"
    /\ listing = 0
    /\ bfails = {}
    /\ gpc = "end"
    /\ wpc = <<>>
    /\ wtmp = <<>>
    /\ completed = 0
    /\ failed = 0
    /\ downloaded_tracks = {}
    /\ stored = {}
    /\ dispatched = 0
    /\ terminals = 0
    /\ trailing = 0
    /\ lastEvent = NoEvent
    /\ escaped = FALSE
    /\ curl = NoLink
    /\ verdict = <<>>
    /\ nshape = "none"
    /\ nid = <<>>
    /\ nurl = <<>>
    /\ nout = <<>>
    /\ uplaylist = <<>>
    /\ upayload = <<>>
    /\ ustatus = "idle"
    /\ rentry = <<>>
    /\ rurls = <<>>
    /\ eop = "none"
    /\ epc = "off"
    /\ edata = NoDoc
    /\ ewhen = <<>>
    /\ tplaylists = <<>>
    /\ tnow = 0
    /\ ttick = <<>>
    /\ download_queue = <<>>
    /\ hashes = <<>>
    /\ task_id = 0
    /\ looping = FALSE
    /\ handled = <<>>

\* Lines 715-735: data = _load_library() and the merge of the infos into
\* the loaded document, in memory.
IngestMerge ==
    /\ ipc = "call"
    /\ idata' = [disk EXCEPT !.tracks = StoreAll(@, iinfos, <<"list", 0>>)]
    /\ loads' = loads + 1
    /\ ipc' = "merged"
    /\ UNCHANGED <<disk, iinfos, iplaylist, saves, others, between>>
    /\ UNCHANGED exceptIngestVars

\* Line 736: _save_library(data); then line 737 calls
\* _append_tracks_to_playlist, which returns at once without playlist id
\* (lines 456-457).
IngestRewrite ==
    /\ ipc = "merged"
    /\ disk' = idata
    /\ saves' = saves + 1
    /\ ipc' = IF iplaylist = "" THEN "done" ELSE "append"
    /\ UNCHANGED <<idata, iinfos, iplaylist, loads, others, between>>
    /\ UNCHANGED exceptIngestVars

\* Lines 458-462 of _append_tracks_to_playlist: data = _load_library(), a
\* second load; return when the playlist is not in it.
IngestAppendLoad ==
    /\ ipc = "append"
    /\ idata' = disk
    /\ loads' = loads + 1
    /\ ipc' = IF FindPlaylist(disk, iplaylist) = 0 THEN "done" ELSE "found"
    /\ UNCHANGED <<disk, iinfos, iplaylist, saves, others, between>>
    /\ UNCHANGED exceptIngestVars

\* Lines 463-468: extend track_ids in memory and _save_library(data), a
\* second rewrite.
IngestAppendSave ==
    /\ ipc = "found"
    /\ disk' = append_tracks_to_playlist(idata, iplaylist,
                                         StoredIds(iinfos, <<"list", 0>>))
    /\ saves' = saves + 1
    /\ ipc' = "done"
    /\ UNCHANGED <<idata, iinfos, iplaylist, loads, others, between>>
    /\ UNCHANGED exceptIngestVars

\* Another request, in its own thread: delete_track of a track that is in
\* the document (load, pop, filter, save).
OtherDelete(id) ==
    /\ others < MaxOther
    /\ ipc # "done"
    /\ id \in TrackIdsOf(disk.tracks)
    /\ disk' = delete_track(disk, id)
    /\ others' = others + 1
    /\ between' = IF ipc \in {"append", "found"} THEN between + 1 ELSE between
    /\ UNCHANGED <<ipc, idata, iinfos, iplaylist, loads, saves>>
    /\ UNCHANGED exceptIngestVars

NextIngest ==
    \/ IngestMerge
    \/ IngestRewrite
    \/ IngestAppendLoad
    \/ IngestAppendSave
    \/ \E v \in Videos : OtherDelete(<<"yt", v>>)

SpecIngest == InitIngest /\ [][NextIngest]_vars

(***************************************************************************)
(* Claims about the ingestion's loads and rewrites (checked under          *)
(* SpecIngest)                                                             *)
(***************************************************************************)

\* C21: every ingestion, with or without playlist id, has loaded the
\* document exactly once and rewritten it exactly once when it returns, and
\* no other writer's rewrite has fallen between its track merge and its
\* playlist append.
C21_OneLoadOneRewrite ==
    ipc = "done" =>
        /\ loads = 1
        /\ saves = 1
        /\ between = 0

(***************************************************************************)
(* Event streams: _iter_ytdlp_events (app.py, lines 659-709),              *)
(* _batch_download_playlist (lines 753-833), the generators of             *)
(* import_track_stream and import_playlist_batch (lines 1047-1128), and    *)
(* library_service.batch_download_playlist (lines 329-425).  The entries   *)
(* of a batch run process_entry on pool threads, all at once (batch_size   *)
(* is at least the number of entries).                                     *)
(***************************************************************************)

\* The generators:
\*  "iter"          _iter_ytdlp_events itself
\*  "import_stream" event_generator of import_track_stream
\*  "batch"         app._batch_download_playlist itself
\*  "endpoint"      event_generator of import_playlist_batch
\*  "library"       library_service.batch_download_playlist itself
Kinds == {"iter", "import_stream", "batch", "endpoint", "library"}

\* Outcomes of the yt-dlp run of _iter_ytdlp_events: the program is not
\* installed (Popen raises FileNotFoundError), a non-zero return code, no
\* JSON record in the output, success.
Tools == {"missing", "nonzero", "nometa", "ok"}

BatchKind == kind \in {"batch", "library"} \/ branch = "batch"

\* The event_generator wrappers catch every Exception of the generator
\* they consume (lines 1053-1058 and 1121-1126).
Wrapped == kind \in {"import_stream", "endpoint"}

\* yield event: one more event reaches the consumer of the stream.
Emit(ev) ==
    /\ lastEvent' = ev
    /\ terminals' = IF ev.type \in {"complete", "error"}
                    THEN terminals + 1 ELSE terminals
    /\ trailing' = IF terminals > 0 THEN trailing + 1 ELSE trailing

\* An exception raised in the generator: the wrapper yields an error event
\* with str(exc) and ends; without wrapper it leaves the generator.
Raise ==
    /\ gpc' = "end"
    /\ IF Wrapped
       THEN Emit(Event("error", 0, 0, {}, TRUE)) /\ UNCHANGED escaped
       ELSE escaped' = TRUE /\ UNCHANGED <<lastEvent, terminals, trailing>>

streamInputs == <<kind, branch, backend, tool, storing, precheck, listing, bfails>>
workerState == <<wpc, wtmp, completed, failed, downloaded_tracks, stored, dispatched>>

InitStream ==
    /\ kind \in Kinds
    /\ branch \in (IF kind = "endpoint" THEN {"single", "batch"} ELSE {"none"})
    /\ tool \in (IF kind \in {"iter", "import_stream"} \/ branch = "single"
                 THEN Tools ELSE {"ok"})
    /\ storing \in (IF kind \in {"iter", "import_stream"} \/ branch = "single"
                    THEN {"ok", "raises"} ELSE {"ok"})
    /\ precheck \in (IF branch = "batch" THEN {"ok", "fail"} ELSE {"ok"})
    /\ listing \in (IF kind \in {"batch", "library"} \/ branch = "batch"
                    THEN {None} \cup (0 .. NumBatch) ELSE {0})
    /\ bfails \in (IF listing = None THEN {{}} ELSE SUBSET (1 .. listing))
    /\ backend \in (IF kind = "batch" \/ branch = "batch"
                    THEN {"threadpool", "redis"} ELSE {"threadpool"})
    /\ gpc = (CASE kind \in {"iter", "import_stream"} -> "iter_popen"
                [] kind = "batch" -> "batch_start"
                [] OTHER -> "begin")
    /\ wpc = <<>>
    /\ wtmp = <<>>
    /\ completed = 0
    /\ failed = 0
    /\ downloaded_tracks = {}
    /\ stored = {}
    /\ dispatched = 0
    /\ terminals = 0
    /\ trailing = 0
    /\ lastEvent = NoEvent
    /\ escaped = FALSE
    /\ caller = "app"
    /\ fails = {}
    /\ nextIdx = 0
    /\ enqueuePc = "submit"
    /\ active_task = [total |-> NumEntries, completed |-> 0, failed |-> 0,
                      results |-> {}]
    /\ pc = [e \in Entries |-> "new"]
    /\ tmp = [e \in Entries |-> 0]
    /\ incC = [e \in Entries |-> 0]
    /\ incF = [e \in Entries |-> 0]
    /\ cbCalls = [e \in Entries |-> 0]
    /\ future = [e \in Entries |-> "none"]
    /\ clock = 0
    /\ lock = None
    /\ library = InitialLibrary
    /\ spc = [q \in 0 .. NumManual |-> IF q = 0 THEN "sleep" ELSE "idle"]
    /\ target = [q \in 0 .. NumManual |-> None]
    /\ data = [q \in 0 .. NumManual |-> NoDoc]
    /\ missing = [q \in 0 .. NumManual |-> <<>>]
    /\ errors = [q \in 0 .. NumManual |-> <<>>]
    /\ dueIds = <<>>
    /\ dueIdx = 0
    /\ attempted = <<>>
    /\ tickErrs = {}
    /\ written = [p \in 1 .. NumPlaylists |-> <<>>]
    /\ candidate = IdlePlaylist
    /\ dueNow = 0
    /\ dueAnswer = <<>>
    /\ plib = EmptyLibrary
    /\ plib0 = EmptyLibrary
    /\ remote = <<>>
    /\ ptarget = ""
    /\ ppc = "idle"
    /\ missing_urls = <<>>
    /\ midx = 0
    /\ perrors = <<>>
    /\ added_tracks = <<>>
    /\ listCalls = 0
    /\ ingestCalls = <<>>
    /\ presult = <<>>
    /\ mdata = EmptyLibrary
    /\ mpc = "idle"
    /\ source_url = ""
    /\ track_map = {}
    /\ todo = 0
    /\ lastKind = "none"
    /\ lastDiff = {}
    /\ track_ids = <<>>
    /\ before_ids = <<>>
    /\ given_ids = <<>>
    /\ given_playlist = ""
    /\ apc = "idle"
    /\ disk = EmptyLibrary
    /\ ipc = "idle"
    /\ idata = EmptyLibrary
    /\ iinfos = <<>>
    /\ iplaylist = ""
    /\ loads = 0
    /\ saves = 0
    /\ others = 0
    /\ between = 0
    /\ curl = NoLink
    /\ verdict = <<>>
    /\ nshape = "none"
    /\ nid = <<>>
    /\ nurl = <<>>
    /\ nout = <<>>
    /\ uplaylist = <<>>
    /\ upayload = <<>>
    /\ ustatus = "idle"
    /\ rentry = <<>>
    /\ rurls = <<>>
    /\ eop = "none"
    /\ epc = "off"
    /\ edata = NoDoc
    /\ ewhen = <<>>
    /\ tplaylists = <<>>
    /\ tnow = 0
    /\ ttick = <<>>
    /\ download_queue = <<>>
    /\ hashes = <<>>
    /\ task_id = 0
    /\ looping = FALSE
    /\ handled = <<>>

\* import_playlist_batch, lines 1071-1098: the first log event, the
\* classification of the URL and its log event.
EndpointBegin ==
    /\ kind = "endpoint"
    /\ gpc = "begin"
    /\ Emit(Event("log", 0, 0, {}, TRUE))
    /\ gpc' = IF branch = "single" THEN "iter_popen" ELSE "precheck"
    /\ UNCHANGED <<streamInputs, workerState, escaped>>
    /\ UNCHANGED exceptStreamVars

\* Lines 1100-1113: the entry count run; a non-zero return code raises.
EndpointPrecheck ==
    /\ gpc = "precheck"
    /\ IF precheck = "fail"
       THEN Raise
       ELSE /\ Emit(Event("log", 0, 0, {}, TRUE))
            /\ gpc' = "batch_start"
            /\ UNCHANGED escaped
    /\ UNCHANGED <<streamInputs, workerState>>
    /\ UNCHANGED exceptStreamVars

\* _iter_ytdlp_events, lines 660-674: Popen, then the start event.
IterStart ==
    /\ gpc = "iter_popen"
    /\ IF tool = "missing"
       THEN Raise
       ELSE /\ Emit(Event("start", 0, 0, {}, TRUE))
            /\ gpc' = "iter_lines"
            /\ UNCHANGED escaped
    /\ UNCHANGED <<streamInputs, workerState>>
    /\ UNCHANGED exceptStreamVars

\* Lines 676-692: one output line that is not a JSON record: a log event
\* (and a progress event when the line shows a percentage).
IterLine ==
    /\ gpc = "iter_lines"
    /\ Emit(Event("log", 0, 0, {}, TRUE))
    /\ UNCHANGED <<gpc, streamInputs, workerState, escaped>>
    /\ UNCHANGED exceptStreamVars

\* Mutant of IterWait: the error events are not followed by return.
IterWaitWithoutReturn ==
    /\ gpc = "iter_lines"
    /\ IF tool \in {"nonzero", "nometa"}
       THEN Emit(Event("error", 0, 0, {}, TRUE))
       ELSE UNCHANGED <<lastEvent, terminals, trailing>>
    /\ gpc' = "iter_store"
    /\ UNCHANGED <<streamInputs, workerState, escaped>>
    /\ UNCHANGED exceptStreamVars

\* Lines 693-700: process.wait(); an error event and return for a non-zero
\* return code and for an output without record.
IterWait ==
    /\ gpc = "iter_lines"
    /\ IF tool \in {"nonzero", "nometa"}
       THEN /\ Emit(Event("error", 0, 0, {}, TRUE))
            /\ gpc' = "end"
       ELSE /\ gpc' = "iter_store"
            /\ UNCHANGED <<lastEvent, terminals, trailing>>
    /\ UNCHANGED <<streamInputs, workerState, escaped>>
    /\ UNCHANGED exceptStreamVars

\* Lines 701-708: _store_downloaded_tracks and the complete event; the
\* store may raise (the document cannot be read or written).
IterStore ==
    /\ gpc = "iter_store"
    /\ IF storing = "raises"
       THEN Raise /\ UNCHANGED stored
       ELSE /\ stored' = stored \cup {1}
            /\ Emit(Event("complete", 1, 0, {1}, FALSE))
            /\ gpc' = "end"
            /\ UNCHANGED escaped
    /\ UNCHANGED <<streamInputs, wpc, wtmp, completed, failed,
                   downloaded_tracks, dispatched>>
    /\ UNCHANGED exceptStreamVars

\* _batch_download_playlist, line 756: the start event.
BatchStart ==
    /\ gpc = "batch_start"
    /\ Emit(Event("start", 0, 0, {}, TRUE))
    /\ gpc' = "batch_fetch"
    /\ UNCHANGED <<streamInputs, workerState, escaped>>
    /\ UNCHANGED exceptStreamVars

\* Lines 759-780: _fetch_flat_playlist_entries; an error event and return
\* when it raises or returns no entry, else the playlist_info event.
BatchFetch ==
    /\ gpc = "batch_fetch"
    /\ IF listing = None \/ listing = 0
       THEN /\ Emit(Event("error", 0, 0, {}, TRUE))
            /\ gpc' = "end"
       ELSE /\ Emit(Event("playlist_info", 0, 0, {}, TRUE))
            /\ gpc' = "batch_enqueue"
    /\ UNCHANGED <<streamInputs, workerState, escaped>>
    /\ UNCHANGED exceptStreamVars

\* Lines 783-806: create_download_queue and enqueue_playlist.  The
\* ThreadPool backend submits one process_entry per entry; the Redis
\* backend pushes one task per entry to the list "download_queue".
BatchEnqueue ==
    /\ gpc = "batch_enqueue"
    /\ wpc' = [e \in 1 .. listing |-> "queued"]
    /\ wtmp' = [e \in 1 .. listing |-> 0]
    /\ dispatched' = IF backend = "threadpool" THEN listing ELSE 0
    /\ gpc' = "batch_poll"
    /\ UNCHANGED <<streamInputs, completed, failed, downloaded_tracks, stored,
                   lastEvent, terminals, trailing, escaped>>
    /\ UNCHANGED exceptStreamVars

\* Lines 809-827: one turn of `while completed + failed < total` with its
\* progress event, or the complete event after the loop.
BatchPoll ==
    /\ gpc = "batch_poll"
    /\ IF completed + failed < listing
       THEN /\ Emit(Event("progress", completed, failed, {}, FALSE))
            /\ UNCHANGED gpc
       ELSE /\ Emit(Event("complete", completed, failed, downloaded_tracks, FALSE))
            /\ gpc' = "end"
    /\ UNCHANGED <<streamInputs, workerState, escaped>>
    /\ UNCHANGED exceptStreamVars

\* library_service.batch_download_playlist, lines 336-396: the listing run
\* raises RuntimeError when it fails or lists nothing; else the ThreadPool
\* queue gets one process_entry per entry.
LibraryFetch ==
    /\ kind = "library"
    /\ gpc = "begin"
    /\ IF listing = None \/ listing = 0
       THEN /\ Raise
            /\ UNCHANGED <<wpc, wtmp, dispatched>>
       ELSE /\ wpc' = [e \in 1 .. listing |-> "queued"]
            /\ wtmp' = [e \in 1 .. listing |-> 0]
            /\ dispatched' = listing
            /\ gpc' = "lib_poll"
            /\ UNCHANGED <<lastEvent, terminals, trailing, escaped>>
    /\ UNCHANGED <<streamInputs, completed, failed, downloaded_tracks, stored>>
    /\ UNCHANGED exceptStreamVars

\* Lines 399-415: one turn of the loop over queue.get_status: a progress
\* event, then break when completed + failed >= total.
LibraryPoll ==
    /\ gpc = "lib_poll"
    /\ Emit(Event("progress", completed, failed, {}, TRUE))
    /\ gpc' = IF completed + failed >= listing THEN "lib_complete" ELSE gpc
    /\ UNCHANGED <<streamInputs, workerState, escaped>>
    /\ UNCHANGED exceptStreamVars

\* Lines 418-424: the complete event carries completed_count, failed_count
\* and results.  Only progress_callback assigns them, and progress_callback
\* contains a yield: calling it (download_queue.py, line 99) makes a
\* generator object and runs none of its body.
LibraryComplete ==
    /\ gpc = "lib_complete"
    /\ Emit(Event("complete", 0, 0, {}, FALSE))
    /\ gpc' = "end"
    /\ UNCHANGED <<streamInputs, workerState, escaped>>
    /\ UNCHANGED exceptStreamVars

\* process_entry on a pool thread, download_queue.py line 94:
\* download_func(url, playlist_id).  _download_single_track_from_url
\* (app.py) raises when the download fails; download_single
\* (library_service.py) returns {"success": False} instead.  A successful
\* download has stored its tracks.
WorkerDownload(e) ==
    /\ gpc \in {"batch_poll", "lib_poll", "lib_complete", "end"}
    /\ backend = "threadpool"
    /\ e \in DOMAIN wpc
    /\ wpc[e] = "queued"
    /\ stored' = IF e \in bfails THEN stored ELSE stored \cup {e}
    /\ wpc' = [wpc EXCEPT ![e] = "read"]
    /\ UNCHANGED <<streamInputs, gpc, wtmp, completed, failed, downloaded_tracks,
                   dispatched, lastEvent, terminals, trailing, escaped>>
    /\ UNCHANGED exceptStreamVars

\* The counter an entry adds to: for the app generator the nonlocal
\* completed or failed of progress_callback (app.py, lines 793-796); for
\* the library generator the queue's own "completed" (download_queue.py,
\* line 95), which get_status reports.
CountsAsFailed(e) == kind # "library" /\ e \in bfails

\* `counter += 1`, the load.
WorkerRead(e) ==
    /\ e \in DOMAIN wpc
    /\ wpc[e] = "read"
    /\ wtmp' = [wtmp EXCEPT ![e] = IF CountsAsFailed(e) THEN failed ELSE completed]
    /\ wpc' = [wpc EXCEPT ![e] = "write"]
    /\ UNCHANGED <<streamInputs, gpc, completed, failed, downloaded_tracks, stored,
                   dispatched, lastEvent, terminals, trailing, escaped>>
    /\ UNCHANGED exceptStreamVars

\* `counter += 1`, the store of the value read plus one.
WorkerWrite(e) ==
    /\ e \in DOMAIN wpc
    /\ wpc[e] = "write"
    /\ IF CountsAsFailed(e)
       THEN failed' = wtmp[e] + 1 /\ UNCHANGED completed
       ELSE completed' = wtmp[e] + 1 /\ UNCHANGED failed
    /\ wpc' = [wpc EXCEPT ![e] = IF kind # "library" /\ e \notin bfails
                                 THEN "extend" ELSE "done"]
    /\ UNCHANGED <<streamInputs, gpc, wtmp, downloaded_tracks, stored,
                   dispatched, lastEvent, terminals, trailing, escaped>>
    /\ UNCHANGED exceptStreamVars

\* app.py, lines 797-798: downloaded_tracks.extend(result), after the
\* increment.
WorkerExtend(e) ==
    /\ e \in DOMAIN wpc
    /\ wpc[e] = "extend"
    /\ downloaded_tracks' = downloaded_tracks \cup {e}
    /\ wpc' = [wpc EXCEPT ![e] = "done"]
    /\ UNCHANGED <<streamInputs, gpc, wtmp, completed, failed, stored,
                   dispatched, lastEvent, terminals, trailing, escaped>>
    /\ UNCHANGED exceptStreamVars

\* start_redis_worker in a process of its own (download_queue.py, lines
\* 217-257): it pops the task, runs download_func and counts in Redis; it
\* has no progress_callback to call.
RedisWorker(e) ==
    /\ backend = "redis"
    /\ e \in DOMAIN wpc
    /\ wpc[e] = "queued"
    /\ stored' = IF e \in bfails THEN stored ELSE stored \cup {e}
    /\ wpc' = [wpc EXCEPT ![e] = "done"]
    /\ UNCHANGED <<streamInputs, gpc, wtmp, completed, failed, downloaded_tracks,
                   dispatched, lastEvent, terminals, trailing, escaped>>
    /\ UNCHANGED exceptStreamVars

GeneratorStep ==
    \/ EndpointBegin
    \/ EndpointPrecheck
    \/ IterStart
    \/ IterLine
    \/ IterWait
    \/ IterStore
    \/ BatchStart
    \/ BatchFetch
    \/ BatchEnqueue
    \/ BatchPoll
    \/ LibraryFetch
    \/ LibraryPoll
    \/ LibraryComplete

WorkerStep(e) ==
    \/ WorkerDownload(e)
    \/ WorkerRead(e)
    \/ WorkerWrite(e)
    \/ WorkerExtend(e)
    \/ RedisWorker(e)

NextStream ==
    \/ GeneratorStep
    \/ \E e \in 1 .. NumBatch : WorkerStep(e)

SpecStream == InitStream /\ [][NextStream]_vars

\* The consumer keeps asking the generator for events, and every pool
\* thread (and the Redis worker) keeps running: each download_func call
\* returns.
SpecStreamFair ==
    /\ InitStream
    /\ [][NextStream]_vars
    /\ WF_vars(GeneratorStep)
    /\ \A e \in 1 .. NumBatch : WF_vars(WorkerStep(e))

(***************************************************************************)
(* Claims about the event streams (checked under SpecStream; C23 under     *)
(* SpecStreamFair)                                                         *)
(***************************************************************************)

\* The entries of the batch whose download succeeds.
Succeeded == IF listing = None THEN {} ELSE (1 .. listing) \ bfails

\* C22: in every event stream at most one terminal event (complete or
\* error) is yielded and no event of any kind follows it, for every outcome
\* of the external tool and of the library write.
C22_AtMostOneTerminalEvent ==
    /\ terminals <= 1
    /\ trailing = 0

\* C22 witness: the stream of the playlist-batch endpoint has ended on the
\* error event of a library write that raised, after the events of a
\* successful download.
C22_Witness ==
    /\ kind = "endpoint"
    /\ branch = "single"
    /\ tool = "ok"
    /\ storing = "raises"
    /\ gpc = "end"
    /\ terminals = 1
    /\ lastEvent.type = "error"

\* C23: every batch stream whose polling loop has started eventually
\* yields its terminal event, given that every download_func call returns:
\* for every interleaving of the pool threads' updates of the counters and
\* for either queue backend.
C23_BatchStreamTerminates ==
    [](gpc \in {"batch_poll", "lib_poll"} => <>(terminals > 0))

\* C24: the complete event of a batch stream carries the final results:
\* completed and failed are the numbers of entries that succeeded and that
\* failed, and tracks holds the tracks of every successful entry.
C24_CompleteCarriesFinalResults ==
    (BatchKind /\ lastEvent.type = "complete") =>
        /\ lastEvent.completed = Cardinality(Succeeded)
        /\ lastEvent.failed = Cardinality(bfails)
        /\ lastEvent.completed + lastEvent.failed = listing
        /\ lastEvent.tracks = Succeeded

\* C25: when listing the collection fails or yields no entry, no worker is
\* dispatched, no track is written, no exception leaves the generator, and
\* the stream ends with an error event that carries a message.
C25_NoEntriesEndsWithErrorEvent ==
    (BatchKind /\ (listing = None \/ listing = 0)) =>
        /\ dispatched = 0
        /\ stored = {}
        /\ ~escaped
        /\ gpc = "end" =>
             /\ terminals = 1
             /\ lastEvent.type = "error"
             /\ lastEvent.message

(***************************************************************************)
(* Single item or collection: ytdlp_service.is_single_video_url (lines     *)
(* 14-35) and the classification in import_playlist_batch (app.py, lines   *)
(* 1073-1092)                                                              *)
(***************************************************************************)

\* Hosts: two of the video provider, the audio provider, another site.
Netlocs == {"www.youtube.com", "youtu.be", "soundcloud.com", "example.org"}

Links ==
    {Link(n, pp, sp, v, l) :
        n \in Netlocs, pp \in BOOLEAN, sp \in BOOLEAN, v \in BOOLEAN, l \in BOOLEAN}

\* "youtube.com" in parsed.netloc or "youtu.be" in parsed.netloc
OnYouTube(url) == url.netloc \in {"www.youtube.com", "youtu.be"}

\* "soundcloud.com" in parsed.netloc
OnSoundCloud(url) == url.netloc = "soundcloud.com"

\* ytdlp_service.is_single_video_url
is_single_video_url(url) ==
    IF OnYouTube(url)
    THEN IF url.query_v THEN TRUE
         ELSE IF url.playlist_path \/ url.query_list THEN FALSE
         ELSE TRUE
    ELSE IF OnSoundCloud(url) THEN ~url.sets_path
    ELSE TRUE

\* import_playlist_batch, lines 1073-1092: is_single_video starts False
\* and is set in the branches of the two providers only.
EndpointIsSingle(url) ==
    IF OnYouTube(url)
    THEN IF url.query_v THEN TRUE
         ELSE IF url.playlist_path \/ url.query_list THEN FALSE
         ELSE FALSE
    ELSE IF OnSoundCloud(url) THEN ~url.sets_path
    ELSE FALSE

InitClassify ==
    /\ curl \in Links
    /\ verdict = <<>>
    /\ caller = "app"
    /\ fails = {}
    /\ nextIdx = 0
    /\ enqueuePc = "submit"
    /\ active_task = [total |-> NumEntries, completed |-> 0, failed |-> 0,
                      results |-> {}]
    /\ pc = [e \in Entries |-> "new"]
    /\ tmp = [e \in Entries |-> 0]
    /\ incC = [e \in Entries |-> 0]
    /\ incF = [e \in Entries |-> 0]
    /\ cbCalls = [e \in Entries |-> 0]
    /\ future = [e \in Entries |-> "none"]
    /\ clock = 0
    /\ lock = None
    /\ library = InitialLibrary
    /\ spc = [q \in 0 .. NumManual |-> IF q = 0 THEN "sleep" ELSE "idle"]
    /\ target = [q \in 0 .. NumManual |-> None]
    /\ data = [q \in 0 .. NumManual |-> NoDoc]
    /\ missing = [q \in 0 .. NumManual |-> <<>>]
    /\ errors = [q \in 0 .. NumManual |-> <<>>]
    /\ dueIds = <<>>
    /\ dueIdx = 0
    /\ attempted = <<>>
    /\ tickErrs = {}
    /\ written = [p \in 1 .. NumPlaylists |-> <<>>]
    /\ candidate = IdlePlaylist
    /\ dueNow = 0
    /\ dueAnswer = <<>>
    /\ plib = EmptyLibrary
    /\ plib0 = EmptyLibrary
    /\ remote = <<>>
    /\ ptarget = ""
    /\ ppc = "idle"
    /\ missing_urls = <<>>
    /\ midx = 0
    /\ perrors = <<>>
    /\ added_tracks = <<>>
    /\ listCalls = 0
    /\ ingestCalls = <<>>
    /\ presult = <<>>
    /\ mdata = EmptyLibrary
    /\ mpc = "idle"
    /\ source_url = ""
    /\ track_map = {}
    /\ todo = 0
    /\ lastKind = "none"
    /\ lastDiff = {}
    /\ track_ids = <<>>
    /\ before_ids = <<>>
    /\ given_ids = <<>>
    /\ given_playlist = ""
    /\ apc = "idle"
    /\ disk = EmptyLibrary
    /\ ipc = "idle"
    /\ idata = EmptyLibrary
    /\ iinfos = <<>>
    /\ iplaylist = ""
    /\ loads = 0
    /\ saves = 0
    /\ others = 0
    /\ between = 0
    /\ kind = "none"
    /\ branch = "none"
    /\ backend = "threadpool"
    /\ tool = "ok"
    /\ storing = "ok"
    /\ precheck = "ok"
    /\ listing = 0
    /\ bfails = {}
    /\ gpc = "end"
    /\ wpc = <<>>
    /\ wtmp = <<>>
    /\ completed = 0
    /\ failed = 0
    /\ downloaded_tracks = {}
    /\ stored = {}
    /\ dispatched = 0
    /\ terminals = 0
    /\ trailing = 0
    /\ lastEvent = NoEvent
    /\ escaped = FALSE
    /\ nshape = "none"
    /\ nid = <<>>
    /\ nurl = <<>>
    /\ nout = <<>>
    /\ uplaylist = <<>>
    /\ upayload = <<>>
    /\ ustatus = "idle"
    /\ rentry = <<>>
    /\ rurls = <<>>
    /\ eop = "none"
    /\ epc = "off"
    /\ edata = NoDoc
    /\ ewhen = <<>>
    /\ tplaylists = <<>>
    /\ tnow = 0
    /\ ttick = <<>>
    /\ download_queue = <<>>
    /\ hashes = <<>>
    /\ task_id = 0
    /\ looping = FALSE
    /\ handled = <<>>

\* Both classifications of the URL.
Classify ==
    /\ verdict = <<>>
    /\ verdict' = <<[function |-> is_single_video_url(curl),
                     endpoint |-> EndpointIsSingle(curl)]>>
    /\ UNCHANGED curl
    /\ UNCHANGED exceptClassifyVars

NextClassify == Classify

SpecClassify == InitClassify /\ [][NextClassify]_vars

\* A URL without collection marker: no "/playlist" path segment, no list
\* parameter without v, no "/sets/" path segment.
NoCollectionMarker(url) ==
    /\ ~url.playlist_path
    /\ ~(url.query_list /\ ~url.query_v)
    /\ ~url.sets_path

\* C26: a URL that carries no collection marker is classified Single
\* whatever its domain, by is_single_video_url and by the classification of
\* the playlist-batch endpoint.
C26_NoMarkerIsSingle ==
    (verdict # <<>> /\ NoCollectionMarker(curl)) =>
        /\ verdict[1].function
        /\ verdict[1].endpoint

(***************************************************************************)
(* normalize_source_url on strings (app.py, lines 178-208; the same code   *)
(* is library_service.normalize_source_url, lines 84-114).  A string is a  *)
(* sequence of pieces: the characters / ? = & # % + and the blank, and     *)
(* words that are never split ("https://", a host name, "watch", "26").    *)
(***************************************************************************)

\* The pieces an item id is written with: a letter, the percent sign, the
\* digit pairs 26 and 25 (after a percent sign: the codes of & and %), a
\* plus sign, a number sign, an ampersand.
IdPieces == {"x", "%", "26", "25", "+", "#", "&"}

UrlIds == UNION {[1 .. n -> IdPieces] : n \in 1 .. MaxIdLen}

\* The link shapes: short link, /watch?v= alone and with a list parameter
\* before and a t parameter after, /shorts/, /embed/ (on a host spelled
\* with capitals), a page of another site with a fragment, and a string
\* without scheme.
LinkShapes == {"short", "watch", "watch_extra", "shorts", "embed", "other", "bare"}

ShapedUrl(shape, id) ==
    CASE shape = "short" -> <<"https://", "youtu.be", "/">> \o id
      [] shape = "watch" ->
           <<"https://", "www.youtube.com", "/", "watch", "?", "v", "=">> \o id
      [] shape = "watch_extra" ->
           <<"https://", "www.youtube.com", "/", "watch", "?",
             "list", "=", "PL", "&", "v", "=">> \o id \o <<"&", "t", "=", "9">>
      [] shape = "shorts" ->
           <<"https://", "www.youtube.com", "/", "shorts", "/">> \o id
      [] shape = "embed" ->
           <<"https://", "WWW.YouTube.com", "/", "embed", "/">> \o id
      [] shape = "other" ->
           <<"https://", "example.org", "/", "track", "/">> \o id \o <<"#", "x">>
      [] OTHER -> <<"youtu.be", "/">> \o id

\* The string with a blank before and after it, or as it is.
Padded(u, pad) == IF pad THEN <<" ">> \o u \o <<" ">> ELSE u

\* str.strip()
RECURSIVE Strip(_)
Strip(u) ==
    IF u = <<>> THEN u
    ELSE IF Head(u) = " " THEN Strip(Tail(u))
    ELSE IF u[Len(u)] = " " THEN Strip(SubSeq(u, 1, Len(u) - 1))
    ELSE u

\* The position of the first piece of u that is in the set seps, Len(u) + 1
\* when there is none.
FirstIn(u, seps) ==
    IF \E k \in 1 .. Len(u) : u[k] \in seps
    THEN CHOOSE k \in 1 .. Len(u) :
           /\ u[k] \in seps
           /\ \A j \in 1 .. (k - 1) : u[j] \notin seps
    ELSE Len(u) + 1

\* str.split(sep): the list of the parts between the separators.
RECURSIVE SplitOn(_, _)
SplitOn(u, sep) ==
    IF FirstIn(u, {sep}) > Len(u) THEN <<u>>
    ELSE <<SubSeq(u, 1, FirstIn(u, {sep}) - 1)>>
           \o SplitOn(SubSeq(u, FirstIn(u, {sep}) + 1, Len(u)), sep)

\* [part for part in parsed.path.split("/") if part]
PathParts(path) == SelectSeq(SplitOn(path, "/"), LAMBDA part : part # <<>>)

\* urlparse(stripped): scheme, netloc, path, query and fragment.  The
\* netloc runs up to the first / ? or #, the path up to the first ? or #,
\* the query up to the first #.
UrlParse(u) ==
    LET hasScheme == u # <<>> /\ u[1] = "https://"
        rest == IF hasScheme THEN Tail(u) ELSE u
        n == IF hasScheme THEN FirstIn(rest, {"/", "?", "#"}) ELSE 1
        afterNet == SubSeq(rest, n, Len(rest))
        p == FirstIn(afterNet, {"?", "#"})
        afterPath == SubSeq(afterNet, p, Len(afterNet))
        hasQuery == afterPath # <<>> /\ afterPath[1] = "?"
        q == IF hasQuery THEN FirstIn(afterPath, {"#"}) ELSE 1
    IN [scheme |-> IF hasScheme THEN "https" ELSE "",
        netloc |-> SubSeq(rest, 1, n - 1),
        path |-> SubSeq(afterNet, 1, p - 1),
        query |-> IF hasQuery THEN SubSeq(afterPath, 2, q - 1) ELSE <<>>,
        fragment |-> SubSeq(afterPath, q + 1, Len(afterPath))]

\* urlunparse of the parsed URL with fragment="": an empty query leaves no
\* question mark.
UrlUnparse(parsed) ==
    <<"https://">> \o parsed.netloc \o parsed.path
        \o (IF parsed.query # <<>> THEN <<"?">> \o parsed.query ELSE <<>>)

\* str.lower() of a host name.
Lower(netloc) ==
    [k \in 1 .. Len(netloc) |->
        IF netloc[k] = "WWW.YouTube.com" THEN "www.youtube.com" ELSE netloc[k]]

\* unquote(text.replace("+", " ")): every plus sign becomes a blank, then
\* every percent sign followed by a code becomes the character of the code.
RECURSIVE Unquote(_)
Unquote(text) ==
    IF text = <<>> THEN <<>>
    ELSE IF Head(text) = "+" THEN <<" ">> \o Unquote(Tail(text))
    ELSE IF Head(text) = "%" /\ Len(text) >= 2 /\ text[2] \in {"26", "25"}
         THEN <<IF text[2] = "26" THEN "&" ELSE "%">>
                \o Unquote(SubSeq(text, 3, Len(text)))
    ELSE <<Head(text)>> \o Unquote(Tail(text))

\* parse_qs(query): the name=value fields between ampersands, decoded;
\* fields without equals sign and fields with an empty value are dropped.
QueryPairs(query) ==
    LET fields == SelectSeq(SplitOn(query, "&"),
                            LAMBDA field : /\ FirstIn(field, {"="}) <= Len(field)
                                           /\ FirstIn(field, {"="}) < Len(field))
    IN [k \in 1 .. Len(fields) |->
           [name |-> Unquote(SubSeq(fields[k], 1, FirstIn(fields[k], {"="}) - 1)),
            value |-> Unquote(SubSeq(fields[k], FirstIn(fields[k], {"="}) + 1,
                                     Len(fields[k])))]]

\* (query.get("v") or [None])[0], <<>> for None.
QueryV(query) ==
    LET vs == SelectSeq(QueryPairs(query), LAMBDA pair : pair.name = <<"v">>)
    IN IF vs = <<>> THEN <<>> ELSE vs[1].value

\* parsed.path.startswith("/" + word), for the paths written here.
PathStartsWith(path, word) == Len(path) >= 2 /\ path[1] = "/" /\ path[2] = word

\* Mutant of YouTubeVideoId: the /embed/ shape is not looked at.
YouTubeVideoIdWithoutEmbed(netloc, path, query) ==
    LET parts == PathParts(path)
        id1 == IF "youtu.be" \in {netloc[k] : k \in 1 .. Len(netloc)} /\ parts # <<>>
               THEN parts[1] ELSE <<>>
        id2 == IF id1 = <<>> /\ PathStartsWith(path, "watch")
               THEN QueryV(query) ELSE id1
        id3 == IF id2 = <<>> /\ PathStartsWith(path, "shorts") /\ Len(path) >= 3
                  /\ path[3] = "/" /\ Len(parts) >= 2
               THEN parts[2] ELSE id2
    IN id3

\* Lines 189-204: the video id of a URL on a YouTube host, <<>> for None.
YouTubeVideoId(netloc, path, query) ==
    LET parts == PathParts(path)
        id1 == IF "youtu.be" \in {netloc[k] : k \in 1 .. Len(netloc)} /\ parts # <<>>
               THEN parts[1] ELSE <<>>
        id2 == IF id1 = <<>> /\ PathStartsWith(path, "watch")
               THEN QueryV(query) ELSE id1
        id3 == IF id2 = <<>> /\ PathStartsWith(path, "shorts") /\ Len(path) >= 3
                  /\ path[3] = "/" /\ Len(parts) >= 2
               THEN parts[2] ELSE id2
        id4 == IF id3 = <<>> /\ PathStartsWith(path, "embed") /\ Len(path) >= 3
                  /\ path[3] = "/" /\ Len(parts) >= 2
               THEN parts[2] ELSE id3
    IN id4

\* f"https://www.youtube.com/watch?v={video_id}"
CanonicalWatchUrl(id) ==
    <<"https://", "www.youtube.com", "/", "watch", "?", "v", "=">> \o id

\* _normalize_source_url on a string; <<>> stands for None and for "".
NormalizeSourceUrlString(u) ==
    LET stripped == Strip(u)
        parsed == UrlParse(stripped)
        netloc == Lower(parsed.netloc)
        onYouTube == \E k \in 1 .. Len(netloc) :
                        netloc[k] \in {"www.youtube.com", "youtu.be"}
        video_id == YouTubeVideoId(netloc, parsed.path, parsed.query)
    IN IF stripped = <<>> THEN <<>>
       ELSE IF parsed.scheme = "" THEN stripped
       ELSE IF onYouTube /\ video_id # <<>> THEN CanonicalWatchUrl(video_id)
       ELSE UrlUnparse(parsed)

InitNormalize ==
    /\ nshape \in LinkShapes
    /\ nid \in UrlIds
    /\ nurl \in {Padded(ShapedUrl(nshape, nid), pad) : pad \in BOOLEAN}
    /\ nout = <<>>
    /\ caller = "app"
    /\ fails = {}
    /\ nextIdx = 0
    /\ enqueuePc = "submit"
    /\ active_task = [total |-> NumEntries, completed |-> 0, failed |-> 0,
                      results |-> {}]
    /\ pc = [e \in Entries |-> "new"]
    /\ tmp = [e \in Entries |-> 0]
    /\ incC = [e \in Entries |-> 0]
    /\ incF = [e \in Entries |-> 0]
    /\ cbCalls = [e \in Entries |-> 0]
    /\ future = [e \in Entries |-> "none"]
    /\ clock = 0
    /\ lock = None
    /\ library = InitialLibrary
    /\ spc = [q \in 0 .. NumManual |-> IF q = 0 THEN "sleep" ELSE "idle"]
    /\ target = [q \in 0 .. NumManual |-> None]
    /\ data = [q \in 0 .. NumManual |-> NoDoc]
    /\ missing = [q \in 0 .. NumManual |-> <<>>]
    /\ errors = [q \in 0 .. NumManual |-> <<>>]
    /\ dueIds = <<>>
    /\ dueIdx = 0
    /\ attempted = <<>>
    /\ tickErrs = {}
    /\ written = [p \in 1 .. NumPlaylists |-> <<>>]
    /\ candidate = IdlePlaylist
    /\ dueNow = 0
    /\ dueAnswer = <<>>
    /\ plib = EmptyLibrary
    /\ plib0 = EmptyLibrary
    /\ remote = <<>>
    /\ ptarget = ""
    /\ ppc = "idle"
    /\ missing_urls = <<>>
    /\ midx = 0
    /\ perrors = <<>>
    /\ added_tracks = <<>>
    /\ listCalls = 0
    /\ ingestCalls = <<>>
    /\ presult = <<>>
    /\ mdata = EmptyLibrary
    /\ mpc = "idle"
    /\ source_url = ""
    /\ track_map = {}
    /\ todo = 0
    /\ lastKind = "none"
    /\ lastDiff = {}
    /\ track_ids = <<>>
    /\ before_ids = <<>>
    /\ given_ids = <<>>
    /\ given_playlist = ""
    /\ apc = "idle"
    /\ disk = EmptyLibrary
    /\ ipc = "idle"
    /\ idata = EmptyLibrary
    /\ iinfos = <<>>
    /\ iplaylist = ""
    /\ loads = 0
    /\ saves = 0
    /\ others = 0
    /\ between = 0
    /\ kind = "none"
    /\ branch = "none"
    /\ backend = "threadpool"
    /\ tool = "ok"
    /\ storing = "ok"
    /\ precheck = "ok"
    /\ listing = 0
    /\ bfails = {}
    /\ gpc = "end"
    /\ wpc = <<>>
    /\ wtmp = <<>>
    /\ completed = 0
    /\ failed = 0
    /\ downloaded_tracks = {}
    /\ stored = {}
    /\ dispatched = 0
    /\ terminals = 0
    /\ trailing = 0
    /\ lastEvent = NoEvent
    /\ escaped = FALSE
    /\ curl = NoLink
    /\ verdict = <<>>
    /\ uplaylist = <<>>
    /\ upayload = <<>>
    /\ ustatus = "idle"
    /\ rentry = <<>>
    /\ rurls = <<>>
    /\ eop = "none"
    /\ epc = "off"
    /\ edata = NoDoc
    /\ ewhen = <<>>
    /\ tplaylists = <<>>
    /\ tnow = 0
    /\ ttick = <<>>
    /\ download_queue = <<>>
    /\ hashes = <<>>
    /\ task_id = 0
    /\ looping = FALSE
    /\ handled = <<>>

\* normalize_source_url applied to the URL, and again to its result.
Normalize ==
    /\ nout = <<>>
    /\ nout' = <<NormalizeSourceUrlString(nurl),
                 NormalizeSourceUrlString(NormalizeSourceUrlString(nurl))>>
    /\ UNCHANGED <<nshape, nid, nurl>>
    /\ UNCHANGED exceptNormalizeVars

NextNormalize == Normalize

SpecNormalize == InitNormalize /\ [][NextNormalize]_vars

(***************************************************************************)
(* Claims about normalize_source_url (checked under SpecNormalize)         *)
(***************************************************************************)

\* C27: normalize_source_url is idempotent: for every non-empty URL u,
\* normalize(normalize(u)) = normalize(u), also when the item id holds the
\* characters & # % + and when the string has blanks around it.
C27_NormalizeIdempotent ==
    nout # <<>> => nout[2] = nout[1]

\* An item id of letters and digits only.
PlainId(id) == \A k \in 1 .. Len(id) : id[k] \in {"x", "26", "25"}

\* C28: for one item id of the video host, the short link, the /watch?v=
\* link with and without other parameters, the /shorts/ link and the
\* /embed/ link all normalize to https://www.youtube.com/watch?v=<id>.
C28_LinkShapesNormalizeAlike ==
    (/\ nout # <<>>
     /\ nshape \in {"short", "watch", "watch_extra", "shorts", "embed"}
     /\ PlainId(nid)) =>
        nout[1] = CanonicalWatchUrl(nid)

\* C28 witness: an /embed/ link on a host spelled with capitals, with
\* blanks around it, was normalized to the canonical watch URL of its id.
C28_Witness ==
    /\ nshape = "embed"
    /\ nid = <<"x", "26">>
    /\ nurl[1] = " "
    /\ nout # <<>>
    /\ nout[1] = <<"https://", "www.youtube.com", "/", "watch", "?", "v", "=",
                   "x", "26">>

(***************************************************************************)
(* update_playlist (app.py, lines 944-969) on a document with one playlist *)
(***************************************************************************)

\* The stored playlists: as create_playlist wrote them (no last run, no
\* last error), and after sync runs that recorded a last run and a last
\* error on a playlist with a URL.  A stored URL is "None" for null.
StoredPlaylists ==
    [id : {"p1"},
     name : {"a"},
     track_ids : {<<>>},
     auto_sync_url : {NoneFlag},
     auto_sync_interval_minutes : {None, IntervalMinutes},
     auto_sync_enabled : {"True", "False"},
     auto_sync_last_run : {None},
     auto_sync_last_error : {""}]
    \cup
    [id : {"p1"},
     name : {"a"},
     track_ids : {<<>>},
     auto_sync_url : {"url"},
     auto_sync_interval_minutes : {None, IntervalMinutes},
     auto_sync_enabled : {"True", "False"},
     auto_sync_last_run : {None, 0},
     auto_sync_last_error : {"", "error"}]

\* The PlaylistUpdate bodies (app.py, lines 102-107).  An absent field is
\* "None" (None for the interval); track_ids is <<>> when absent and
\* <<list>> when given.  The URLs: empty, blank, a URL, a URL with blanks.
PlaylistUpdates ==
    [name : {NoneFlag, "b"},
     track_ids : {<<>>, <<<<"t1">>>>},
     auto_sync_url : {NoneFlag, "", " ", "url", " url "},
     auto_sync_interval_minutes : {None, 0, IntervalMinutes},
     auto_sync_enabled : {NoneFlag, "True", "False"}]

\* str.strip() of the URLs of the requests.
StripUrl(url) ==
    CASE url = " " -> ""
      [] url = " url " -> "url"
      [] OTHER -> url

\* Line 955: payload.auto_sync_url.strip() if payload.auto_sync_url else None
StrippedOrNone(url) == IF url = "" THEN NoneFlag ELSE StripUrl(url)

\* Lines 950-967: the playlist after the request's fields were applied, in
\* the order of the code.
ApplyUpdate(playlist, payload) ==
    LET p1 == IF payload.name # NoneFlag
              THEN [playlist EXCEPT !.name = payload.name] ELSE playlist
        p2 == IF payload.track_ids # <<>>
              THEN [p1 EXCEPT !.track_ids = payload.track_ids[1]] ELSE p1
        auto_sync_url == StrippedOrNone(payload.auto_sync_url)
        p3 == IF payload.auto_sync_url = NoneFlag THEN p2
              ELSE IF auto_sync_url \in {NoneFlag, ""}
                   THEN [p2 EXCEPT !.auto_sync_url = auto_sync_url,
                                   !.auto_sync_enabled = "False",
                                   !.auto_sync_last_run = None,
                                   !.auto_sync_last_error = ""]
                   ELSE [p2 EXCEPT !.auto_sync_url = auto_sync_url]
        p4 == IF payload.auto_sync_interval_minutes # None
              THEN [p3 EXCEPT !.auto_sync_interval_minutes =
                                 parse_positive_int(payload.auto_sync_interval_minutes)]
              ELSE p3
        p5 == IF payload.auto_sync_enabled # NoneFlag
              THEN [p4 EXCEPT !.auto_sync_enabled = payload.auto_sync_enabled]
              ELSE p4
    IN p5

InitUpdate ==
    /\ uplaylist \in StoredPlaylists
    /\ upayload = <<>>
    /\ ustatus = "call"
    /\ caller = "app"
    /\ fails = {}
    /\ nextIdx = 0
    /\ enqueuePc = "submit"
    /\ active_task = [total |-> NumEntries, completed |-> 0, failed |-> 0,
                      results |-> {}]
    /\ pc = [e \in Entries |-> "new"]
    /\ tmp = [e \in Entries |-> 0]
    /\ incC = [e \in Entries |-> 0]
    /\ incF = [e \in Entries |-> 0]
    /\ cbCalls = [e \in Entries |-> 0]
    /\ future = [e \in Entries |-> "none"]
    /\ clock = 0
    /\ lock = None
    /\ library = InitialLibrary
    /\ spc = [q \in 0 .. NumManual |-> IF q = 0 THEN "sleep" ELSE "idle"]
    /\ target = [q \in 0 .. NumManual |-> None]
    /\ data = [q \in 0 .. NumManual |-> NoDoc]
    /\ missing = [q \in 0 .. NumManual |-> <<>>]
    /\ errors = [q \in 0 .. NumManual |-> <<>>]
    /\ dueIds = <<>>
    /\ dueIdx = 0
    /\ attempted = <<>>
    /\ tickErrs = {}
    /\ written = [p \in 1 .. NumPlaylists |-> <<>>]
    /\ candidate = IdlePlaylist
    /\ dueNow = 0
    /\ dueAnswer = <<>>
    /\ plib = EmptyLibrary
    /\ plib0 = EmptyLibrary
    /\ remote = <<>>
    /\ ptarget = ""
    /\ ppc = "idle"
    /\ missing_urls = <<>>
    /\ midx = 0
    /\ perrors = <<>>
    /\ added_tracks = <<>>
    /\ listCalls = 0
    /\ ingestCalls = <<>>
    /\ presult = <<>>
    /\ mdata = EmptyLibrary
    /\ mpc = "idle"
    /\ source_url = ""
    /\ track_map = {}
    /\ todo = 0
    /\ lastKind = "none"
    /\ lastDiff = {}
    /\ track_ids = <<>>
    /\ before_ids = <<>>
    /\ given_ids = <<>>
    /\ given_playlist = ""
    /\ apc = "idle"
    /\ disk = EmptyLibrary
    /\ ipc = "idle"
    /\ idata = EmptyLibrary
    /\ iinfos = <<>>
    /\ iplaylist = ""
    /\ loads = 0
    /\ saves = 0
    /\ others = 0
    /\ between = 0
    /\ kind = "none"
    /\ branch = "none"
    /\ backend = "threadpool"
    /\ tool = "ok"
    /\ storing = "ok"
    /\ precheck = "ok"
    /\ listing = 0
    /\ bfails = {}
    /\ gpc = "end"
    /\ wpc = <<>>
    /\ wtmp = <<>>
    /\ completed = 0
    /\ failed = 0
    /\ downloaded_tracks = {}
    /\ stored = {}
    /\ dispatched = 0
    /\ terminals = 0
    /\ trailing = 0
    /\ lastEvent = NoEvent
    /\ escaped = FALSE
    /\ curl = NoLink
    /\ verdict = <<>>
    /\ nshape = "none"
    /\ nid = <<>>
    /\ nurl = <<>>
    /\ nout = <<>>
    /\ rentry = <<>>
    /\ rurls = <<>>
    /\ eop = "none"
    /\ epc = "off"
    /\ edata = NoDoc
    /\ ewhen = <<>>
    /\ tplaylists = <<>>
    /\ tnow = 0
    /\ ttick = <<>>
    /\ download_queue = <<>>
    /\ hashes = <<>>
    /\ task_id = 0
    /\ looping = FALSE
    /\ handled = <<>>

\* PUT /api/playlists/{playlist_id}: 404 for the id of no playlist, else
\* the fields are applied and the document is saved.
update_playlist(playlist_id, payload) ==
    /\ ustatus = "call"
    /\ upayload' = payload
    /\ IF playlist_id # uplaylist.id
       THEN /\ ustatus' = "404"
            /\ UNCHANGED uplaylist
       ELSE /\ ustatus' = "ok"
            /\ uplaylist' = ApplyUpdate(uplaylist, payload)
    /\ UNCHANGED exceptUpdateVars

NextUpdate ==
    \E playlist_id \in {"p1", "ghost"}, payload \in PlaylistUpdates :
        update_playlist(playlist_id, payload)

SpecUpdate == InitUpdate /\ [][NextUpdate]_vars

(***************************************************************************)
(* Claims about update_playlist (checked under SpecUpdate)                 *)
(***************************************************************************)

\* C29: after an update that clears the auto-sync URL (an empty or blank
\* auto_sync_url in the request), the stored playlist has auto_sync_enabled
\* false, auto_sync_last_run null and auto_sync_last_error '', whatever the
\* other fields of the request, auto_sync_enabled included.
C29_ClearedUrlDisablesSync ==
    (ustatus = "ok" /\ upayload.auto_sync_url \in {"", " "}) =>
        /\ uplaylist.auto_sync_enabled = "False"
        /\ uplaylist.auto_sync_last_run = None
        /\ uplaylist.auto_sync_last_error = ""

(***************************************************************************)
(* The URL of a batch unit (download_queue.py, lines 74-82 in              *)
(* ThreadPoolDownloadQueue.process_entry and lines 162-170 in              *)
(* RedisDownloadQueue.enqueue_playlist)                                    *)
(***************************************************************************)

\* The values of a field of an entry: the key is absent, its value is null,
\* the empty string, or a string of its own (named after the field, so that
\* the fields of one entry differ).
FieldValues(field) == {<<"absent">>, <<"null">>, <<"">>, <<field, "text">>}

\* The values of ie_key and of id: absent or null ("None"), or a string.
IeKeys == {NoneFlag, "Youtube", "YoutubeWeb", "Soundcloud"}

EntryIds == {NoneFlag, "abc"}

ListedEntries ==
    [webpage_url : FieldValues("webpage_url"),
     original_url : FieldValues("original_url"),
     url : FieldValues("url"),
     ie_key : IeKeys,
     id : EntryIds]

\* entry.get(key): None for an absent key.
Get(value) == IF value = <<"absent">> THEN <<"null">> ELSE value

\* entry.get(key, ""): the empty string for an absent key.
GetOrEmpty(value) == IF value = <<"absent">> THEN <<"">> ELSE value

\* Python truth of a value of a field.
Truthy(value) == value \notin {<<"absent">>, <<"null">>, <<"">>}

\* a or b
Or(a, b) == IF Truthy(a) THEN a ELSE b

\* str(entry.get("ie_key") or "").lower()
LowerKey(ie_key) ==
    CASE ie_key = NoneFlag -> ""
      [] ie_key = "Youtube" -> "youtube"
      [] ie_key = "YoutubeWeb" -> "youtubeweb"
      [] OTHER -> "soundcloud"

\* f"https://www.youtube.com/watch?v={entry.get('id')}": a null id is
\* formatted as the text None.
WatchUrlOf(id) == <<"https://www.youtube.com/watch?v=", id>>

\* process_entry, lines 74-82.
process_entry_url(entry) ==
    LET url == Or(Or(Get(entry.webpage_url), Get(entry.original_url)),
                  Get(entry.url))
    IN IF Truthy(url) THEN url
       ELSE IF LowerKey(entry.ie_key) \in {"youtube", "youtubeweb"}
            THEN WatchUrlOf(entry.id)
            ELSE GetOrEmpty(entry.url)

\* RedisDownloadQueue.enqueue_playlist, lines 162-170.
enqueue_playlist_url(entry) ==
    LET url == Or(Or(Get(entry.webpage_url), Get(entry.original_url)),
                  Get(entry.url))
    IN IF Truthy(url) THEN url
       ELSE IF LowerKey(entry.ie_key) \in {"youtube", "youtubeweb"}
            THEN WatchUrlOf(entry.id)
            ELSE GetOrEmpty(entry.url)

InitResolve ==
    /\ rentry \in ListedEntries
    /\ rurls = <<>>
    /\ caller = "app"
    /\ fails = {}
    /\ nextIdx = 0
    /\ enqueuePc = "submit"
    /\ active_task = [total |-> NumEntries, completed |-> 0, failed |-> 0,
                      results |-> {}]
    /\ pc = [e \in Entries |-> "new"]
    /\ tmp = [e \in Entries |-> 0]
    /\ incC = [e \in Entries |-> 0]
    /\ incF = [e \in Entries |-> 0]
    /\ cbCalls = [e \in Entries |-> 0]
    /\ future = [e \in Entries |-> "none"]
    /\ clock = 0
    /\ lock = None
    /\ library = InitialLibrary
    /\ spc = [q \in 0 .. NumManual |-> IF q = 0 THEN "sleep" ELSE "idle"]
    /\ target = [q \in 0 .. NumManual |-> None]
    /\ data = [q \in 0 .. NumManual |-> NoDoc]
    /\ missing = [q \in 0 .. NumManual |-> <<>>]
    /\ errors = [q \in 0 .. NumManual |-> <<>>]
    /\ dueIds = <<>>
    /\ dueIdx = 0
    /\ attempted = <<>>
    /\ tickErrs = {}
    /\ written = [p \in 1 .. NumPlaylists |-> <<>>]
    /\ candidate = IdlePlaylist
    /\ dueNow = 0
    /\ dueAnswer = <<>>
    /\ plib = EmptyLibrary
    /\ plib0 = EmptyLibrary
    /\ remote = <<>>
    /\ ptarget = ""
    /\ ppc = "idle"
    /\ missing_urls = <<>>
    /\ midx = 0
    /\ perrors = <<>>
    /\ added_tracks = <<>>
    /\ listCalls = 0
    /\ ingestCalls = <<>>
    /\ presult = <<>>
    /\ mdata = EmptyLibrary
    /\ mpc = "idle"
    /\ source_url = ""
    /\ track_map = {}
    /\ todo = 0
    /\ lastKind = "none"
    /\ lastDiff = {}
    /\ track_ids = <<>>
    /\ before_ids = <<>>
    /\ given_ids = <<>>
    /\ given_playlist = ""
    /\ apc = "idle"
    /\ disk = EmptyLibrary
    /\ ipc = "idle"
    /\ idata = EmptyLibrary
    /\ iinfos = <<>>
    /\ iplaylist = ""
    /\ loads = 0
    /\ saves = 0
    /\ others = 0
    /\ between = 0
    /\ kind = "none"
    /\ branch = "none"
    /\ backend = "threadpool"
    /\ tool = "ok"
    /\ storing = "ok"
    /\ precheck = "ok"
    /\ listing = 0
    /\ bfails = {}
    /\ gpc = "end"
    /\ wpc = <<>>
    /\ wtmp = <<>>
    /\ completed = 0
    /\ failed = 0
    /\ downloaded_tracks = {}
    /\ stored = {}
    /\ dispatched = 0
    /\ terminals = 0
    /\ trailing = 0
    /\ lastEvent = NoEvent
    /\ escaped = FALSE
    /\ curl = NoLink
    /\ verdict = <<>>
    /\ nshape = "none"
    /\ nid = <<>>
    /\ nurl = <<>>
    /\ nout = <<>>
    /\ uplaylist = <<>>
    /\ upayload = <<>>
    /\ ustatus = "idle"
    /\ eop = "none"
    /\ epc = "off"
    /\ edata = NoDoc
    /\ ewhen = <<>>
    /\ tplaylists = <<>>
    /\ tnow = 0
    /\ ttick = <<>>
    /\ download_queue = <<>>
    /\ hashes = <<>>
    /\ task_id = 0
    /\ looping = FALSE
    /\ handled = <<>>

\* Both backends resolve the URL of the entry.
ResolveUrl ==
    /\ rurls = <<>>
    /\ rurls' = <<process_entry_url(rentry), enqueue_playlist_url(rentry)>>
    /\ UNCHANGED rentry
    /\ UNCHANGED exceptResolveVars

NextResolve == ResolveUrl

SpecResolve == InitResolve /\ [][NextResolve]_vars

(***************************************************************************)
(* Claims about the URL of a batch unit (checked under SpecResolve)        *)
(***************************************************************************)

\* C30: the URL a batch unit downloads is the entry's webpage URL if it has
\* one; else the URL rebuilt from the entry's id when ie_key names a
\* recognized provider; else another URL field of the entry; and it is the
\* same in the ThreadPool and the Redis backend.
C30_UrlResolutionPriority ==
    rurls # <<>> =>
        /\ rurls[1] = rurls[2]
        /\ Truthy(rentry.webpage_url) => rurls[1] = rentry.webpage_url
        /\ (/\ ~Truthy(rentry.webpage_url)
            /\ LowerKey(rentry.ie_key) \in {"youtube", "youtubeweb"}
            /\ rentry.id # NoneFlag) => rurls[1] = WatchUrlOf(rentry.id)
        /\ (/\ ~Truthy(rentry.webpage_url)
            /\ LowerKey(rentry.ie_key) \notin {"youtube", "youtubeweb"}
            /\ (Truthy(rentry.original_url) \/ Truthy(rentry.url))) =>
               rurls[1] \in {rentry.original_url, rentry.url}

(***************************************************************************)
(* A sync pass beside another writer of the document: sync_playlist (the   *)
(* actions of SpecSync, for the first request thread) and one request of   *)
(* update_playlist (app.py, lines 944-969) or delete_track (lines          *)
(* 898-914) in a thread of its own.  AUTO_SYNC_LOCK is taken by the sync   *)
(* pass only; no lock guards the document.                                 *)
(***************************************************************************)

\* The id of a track that is in the document before the pass; the passes
\* ingest the tracks RemoteUrls(p) only.
OldTrack == 0

\* The document before the pass: the playlists of InitialLibrary, each with
\* a name and with the old track, which is also a favorite.
EditLibrary ==
    [tracks |-> {OldTrack},
     favorites |-> {OldTrack},
     playlists |-> [p \in Playlists |->
        [name |-> "old"] @@
        [InitialLibrary.playlists[p] EXCEPT !.track_ids = <<OldTrack>>]]]

\* The body of the rename request: a new name and no other field.
RenamePayload ==
    [name |-> "new", track_ids |-> <<>>, auto_sync_url |-> NoneFlag,
     auto_sync_interval_minutes |-> None, auto_sync_enabled |-> NoneFlag]

\* delete_track, lines 907-911, on a loaded document that has the track:
\* the track is popped, its id is filtered out of the favorites and of the
\* track_ids of every playlist.
RemoveTrack(doc, id) ==
    [doc EXCEPT !.tracks = @ \ {id},
                !.favorites = @ \ {id},
                !.playlists = [p \in DOMAIN @ |->
                                 [@[p] EXCEPT !.track_ids = Without(@, id)]]]

\* The sync requests have not arrived, the other request neither.
InitEdit ==
    /\ eop = "none"
    /\ epc = "ready"
    /\ edata = NoDoc
    /\ ewhen = <<>>
    /\ caller = "app"
    /\ fails = {}
    /\ nextIdx = 0
    /\ enqueuePc = "submit"
    /\ active_task = [total |-> NumEntries, completed |-> 0, failed |-> 0,
                      results |-> {}]
    /\ pc = [e \in Entries |-> "new"]
    /\ tmp = [e \in Entries |-> 0]
    /\ incC = [e \in Entries |-> 0]
    /\ incF = [e \in Entries |-> 0]
    /\ cbCalls = [e \in Entries |-> 0]
    /\ future = [e \in Entries |-> "none"]
    /\ clock = 0
    /\ lock = None
    /\ library = EditLibrary
    /\ spc = [q \in 0 .. NumManual |-> IF q = 0 THEN "sleep" ELSE "idle"]
    /\ target = [q \in 0 .. NumManual |-> None]
    /\ data = [q \in 0 .. NumManual |-> NoDoc]
    /\ missing = [q \in 0 .. NumManual |-> <<>>]
    /\ errors = [q \in 0 .. NumManual |-> <<>>]
    /\ dueIds = <<>>
    /\ dueIdx = 0
    /\ attempted = <<>>
    /\ tickErrs = {}
    /\ written = [p \in 1 .. NumPlaylists |-> <<>>]
    /\ candidate = IdlePlaylist
    /\ dueNow = 0
    /\ dueAnswer = <<>>
    /\ plib = EmptyLibrary
    /\ plib0 = EmptyLibrary
    /\ remote = <<>>
    /\ ptarget = ""
    /\ ppc = "idle"
    /\ missing_urls = <<>>
    /\ midx = 0
    /\ perrors = <<>>
    /\ added_tracks = <<>>
    /\ listCalls = 0
    /\ ingestCalls = <<>>
    /\ presult = <<>>
    /\ mdata = EmptyLibrary
    /\ mpc = "idle"
    /\ source_url = ""
    /\ track_map = {}
    /\ todo = 0
    /\ lastKind = "none"
    /\ lastDiff = {}
    /\ track_ids = <<>>
    /\ before_ids = <<>>
    /\ given_ids = <<>>
    /\ given_playlist = ""
    /\ apc = "idle"
    /\ disk = EmptyLibrary
    /\ ipc = "idle"
    /\ idata = EmptyLibrary
    /\ iinfos = <<>>
    /\ iplaylist = ""
    /\ loads = 0
    /\ saves = 0
    /\ others = 0
    /\ between = 0
    /\ kind = "none"
    /\ branch = "none"
    /\ backend = "threadpool"
    /\ tool = "ok"
    /\ storing = "ok"
    /\ precheck = "ok"
    /\ listing = 0
    /\ bfails = {}
    /\ gpc = "end"
    /\ wpc = <<>>
    /\ wtmp = <<>>
    /\ completed = 0
    /\ failed = 0
    /\ downloaded_tracks = {}
    /\ stored = {}
    /\ dispatched = 0
    /\ terminals = 0
    /\ trailing = 0
    /\ lastEvent = NoEvent
    /\ escaped = FALSE
    /\ curl = NoLink
    /\ verdict = <<>>
    /\ nshape = "none"
    /\ nid = <<>>
    /\ nurl = <<>>
    /\ nout = <<>>
    /\ uplaylist = <<>>
    /\ upayload = <<>>
    /\ ustatus = "idle"
    /\ rentry = <<>>
    /\ rurls = <<>>
    /\ tplaylists = <<>>
    /\ tnow = 0
    /\ ttick = <<>>
    /\ download_queue = <<>>
    /\ hashes = <<>>
    /\ task_id = 0
    /\ looping = FALSE
    /\ handled = <<>>

\* update_playlist, lines 946-967, for the first playlist, and
\* delete_track, lines 899-911, for the old track: _load_library() and the
\* change of the loaded document, in memory; 404 when the track is not in
\* the loaded document.
EditLoad(op) ==
    /\ epc = "ready"
    /\ eop' = op
    /\ ewhen' = <<spc[1]>>
    /\ IF op = "rename"
       THEN /\ edata' = [library EXCEPT !.playlists[1] = ApplyUpdate(@, RenamePayload)]
            /\ epc' = "loaded"
       ELSE IF OldTrack \in library.tracks
            THEN /\ edata' = RemoveTrack(library, OldTrack)
                 /\ epc' = "loaded"
            ELSE /\ epc' = "404"
                 /\ UNCHANGED edata
    /\ UNCHANGED exceptEditVars

\* _save_library(data) of the request (lines 968 and 912), and its answer.
EditSave ==
    /\ epc = "loaded"
    /\ library' = edata
    /\ epc' = "done"
    /\ ewhen' = Append(ewhen, spc[1])
    /\ UNCHANGED <<eop, edata>>
    /\ UNCHANGED <<clock, lock, spc, target, data, missing, errors, dueIds,
                   dueIdx, attempted, tickErrs, written>>
    /\ UNCHANGED exceptSyncEditVars

NextEdit ==
    \/ \E p \in RequestIds : SyncRequest(1, p)
    \/ Acquire(1)
    \/ SyncLoad(1)
    \/ Fetch(1)
    \/ Ingest(1)
    \/ StoreLoad(1)
    \/ StoreSave(1)
    \/ AppendLoad(1)
    \/ AppendSave(1)
    \/ StatusLoad(1)
    \/ StatusSave(1)
    \/ Release(1)
    \/ \E op \in {"rename", "delete_track"} : EditLoad(op)
    \/ EditSave

SpecEdit == InitEdit /\ [][NextEdit]_vars

(***************************************************************************)
(* Claims about a sync pass beside another writer (checked under SpecEdit) *)
(***************************************************************************)

\* Where a pass is between its first load and its status write: listing
\* and ingestion.
ListingOrIngestion == {"fetch", "ingest", "store_load", "store_save",
                       "append_load", "append_save"}

\* C31: an edit of the library (a playlist rename) that was loaded and
\* fully written while a sync pass was in its listing or ingestion phase is
\* still in the document after the pass has written auto_sync_last_run and
\* auto_sync_last_error and has returned.
C31_EditSurvivesPass ==
    (/\ eop = "rename"
     /\ epc = "done"
     /\ ewhen[1] \in ListingOrIngestion
     /\ ewhen[2] \in ListingOrIngestion
     /\ spc[1] = "answered"
     /\ \E p \in Playlists : written[p] # <<>>) =>
        library.playlists[1].name = "new"

\* C36: once delete_track has returned, the deleted track is not in the
\* persisted document again, and neither the favorites nor the track_ids
\* of any playlist hold its id again, whatever a sync pass that was
\* already running writes afterwards.
C36_DeletionNotUndone ==
    (eop = "delete_track" /\ epc = "done") =>
        /\ OldTrack \notin library.tracks
        /\ OldTrack \notin library.favorites
        /\ \A p \in Playlists :
              \A k \in 1 .. Len(library.playlists[p].track_ids) :
                  library.playlists[p].track_ids[k] # OldTrack

(***************************************************************************)
(* The due set of one tick over stored auto_sync_last_run values of any    *)
(* kind (_should_auto_sync_playlist and _run_due_auto_sync, app.py, lines  *)
(* 301-336; the same code is sync_service.py, lines 96-131).               *)
(***************************************************************************)

\* The values json.loads can hand over as auto_sync_last_run, as <<kind,
\* minutes>>: null; the empty string; an ISO timestamp without offset (as
\* the sync pass writes it); an ISO timestamp with a UTC offset; a string
\* that is no ISO timestamp; the number zero; another number.
StoredLastRuns ==
    {<<"null", 0>>, <<"empty", 0>>, <<"iso", 0>>, <<"iso", 1>>,
     <<"iso_offset", 0>>, <<"text", 0>>, <<"zero", 0>>, <<"number", 0>>}

\* Playlists with a URL and an interval, the flag null or false.
StoredPlaylistRecords ==
    [auto_sync_url : {"url"},
     auto_sync_interval_minutes : {IntervalMinutes},
     auto_sync_enabled : {NoneFlag, "False"},
     auto_sync_last_run : StoredLastRuns]

\* `not last_run` (line 310).
NotLastRun(last_run) == last_run[1] \in {"null", "empty", "zero"}

\* datetime.fromisoformat(last_run) (line 313): a naive or an aware
\* datetime for an ISO string, ValueError for another string, TypeError
\* for a value that is no string.
FromIsoFormat(last_run) ==
    CASE last_run[1] = "iso" -> "naive"
      [] last_run[1] = "iso_offset" -> "aware"
      [] last_run[1] \in {"text", "empty"} -> "ValueError"
      [] OTHER -> "TypeError"

\* The playlist with its last_run as should_auto_sync_playlist reads a
\* readable one: absent, or the minutes of a timestamp without offset.
Readable(playlist, last_run) ==
    [playlist EXCEPT !.auto_sync_last_run = last_run]

\* _should_auto_sync_playlist(playlist, now) for any stored last_run:
\* "True", "False", or "TypeError" when the call raises.  Subtracting an
\* aware datetime from the naive now (line 316) raises TypeError.
ShouldAutoSyncStored(playlist, now) ==
    LET last_run == playlist.auto_sync_last_run IN
    IF ~should_auto_sync_playlist(Readable(playlist, None), now) THEN "False"
    ELSE IF NotLastRun(last_run) THEN "True"
    ELSE IF FromIsoFormat(last_run) = "ValueError" THEN "True"
    ELSE IF FromIsoFormat(last_run) \in {"TypeError", "aware"} THEN "TypeError"
    ELSE IF should_auto_sync_playlist(Readable(playlist, last_run[2]), now)
         THEN "True" ELSE "False"

\* due_ids of lines 322-327 over the playlists from position i on.
RECURSIVE StoredDueIds(_, _, _)
StoredDueIds(playlists, now, i) ==
    IF i > Len(playlists) THEN <<>>
    ELSE (IF ShouldAutoSyncStored(playlists[i], now) = "True" THEN <<i>> ELSE <<>>)
         \o StoredDueIds(playlists, now, i + 1)

InitTick ==
    /\ tplaylists \in [1 .. NumPlaylists -> StoredPlaylistRecords]
    /\ tnow \in {IntervalMinutes, IntervalMinutes + 1}
    /\ ttick = <<>>
    /\ caller = "app"
    /\ fails = {}
    /\ nextIdx = 0
    /\ enqueuePc = "submit"
    /\ active_task = [total |-> NumEntries, completed |-> 0, failed |-> 0,
                      results |-> {}]
    /\ pc = [e \in Entries |-> "new"]
    /\ tmp = [e \in Entries |-> 0]
    /\ incC = [e \in Entries |-> 0]
    /\ incF = [e \in Entries |-> 0]
    /\ cbCalls = [e \in Entries |-> 0]
    /\ future = [e \in Entries |-> "none"]
    /\ clock = 0
    /\ lock = None
    /\ library = InitialLibrary
    /\ spc = [q \in 0 .. NumManual |-> IF q = 0 THEN "sleep" ELSE "idle"]
    /\ target = [q \in 0 .. NumManual |-> None]
    /\ data = [q \in 0 .. NumManual |-> NoDoc]
    /\ missing = [q \in 0 .. NumManual |-> <<>>]
    /\ errors = [q \in 0 .. NumManual |-> <<>>]
    /\ dueIds = <<>>
    /\ dueIdx = 0
    /\ attempted = <<>>
    /\ tickErrs = {}
    /\ written = [p \in 1 .. NumPlaylists |-> <<>>]
    /\ candidate = IdlePlaylist
    /\ dueNow = 0
    /\ dueAnswer = <<>>
    /\ plib = EmptyLibrary
    /\ plib0 = EmptyLibrary
    /\ remote = <<>>
    /\ ptarget = ""
    /\ ppc = "idle"
    /\ missing_urls = <<>>
    /\ midx = 0
    /\ perrors = <<>>
    /\ added_tracks = <<>>
    /\ listCalls = 0
    /\ ingestCalls = <<>>
    /\ presult = <<>>
    /\ mdata = EmptyLibrary
    /\ mpc = "idle"
    /\ source_url = ""
    /\ track_map = {}
    /\ todo = 0
    /\ lastKind = "none"
    /\ lastDiff = {}
    /\ track_ids = <<>>
    /\ before_ids = <<>>
    /\ given_ids = <<>>
    /\ given_playlist = ""
    /\ apc = "idle"
    /\ disk = EmptyLibrary
    /\ ipc = "idle"
    /\ idata = EmptyLibrary
    /\ iinfos = <<>>
    /\ iplaylist = ""
    /\ loads = 0
    /\ saves = 0
    /\ others = 0
    /\ between = 0
    /\ kind = "none"
    /\ branch = "none"
    /\ backend = "threadpool"
    /\ tool = "ok"
    /\ storing = "ok"
    /\ precheck = "ok"
    /\ listing = 0
    /\ bfails = {}
    /\ gpc = "end"
    /\ wpc = <<>>
    /\ wtmp = <<>>
    /\ completed = 0
    /\ failed = 0
    /\ downloaded_tracks = {}
    /\ stored = {}
    /\ dispatched = 0
    /\ terminals = 0
    /\ trailing = 0
    /\ lastEvent = NoEvent
    /\ escaped = FALSE
    /\ curl = NoLink
    /\ verdict = <<>>
    /\ nshape = "none"
    /\ nid = <<>>
    /\ nurl = <<>>
    /\ nout = <<>>
    /\ uplaylist = <<>>
    /\ upayload = <<>>
    /\ ustatus = "idle"
    /\ rentry = <<>>
    /\ rurls = <<>>
    /\ eop = "none"
    /\ epc = "off"
    /\ edata = NoDoc
    /\ ewhen = <<>>
    /\ download_queue = <<>>
    /\ hashes = <<>>
    /\ task_id = 0
    /\ looping = FALSE
    /\ handled = <<>>

\* One tick of _auto_sync_worker (lines 343-347): _run_due_auto_sync
\* computes due_ids and synchronizes each id; an exception of the list
\* comprehension leaves _run_due_auto_sync before any id is synchronized
\* and is swallowed by the worker's `except Exception: continue`.
TickOverStored ==
    /\ ttick = <<>>
    /\ IF \E i \in 1 .. Len(tplaylists) :
             ShouldAutoSyncStored(tplaylists[i], tnow) = "TypeError"
       THEN ttick' = <<[raised |-> TRUE, synchronized |-> <<>>]>>
       ELSE ttick' = <<[raised |-> FALSE,
                        synchronized |-> StoredDueIds(tplaylists, tnow, 1)]>>
    /\ UNCHANGED <<tplaylists, tnow>>
    /\ UNCHANGED exceptTickVars

NextTick == TickOverStored

SpecTick == InitTick /\ [][NextTick]_vars

(***************************************************************************)
(* Claims about unreadable last_run values (checked under SpecTick)        *)
(***************************************************************************)

\* A stored last_run that cannot be read as a timestamp of the scheduler's
\* clock: a string that is no ISO timestamp, a value that is no string, a
\* timestamp with an offset.
Unreadable(last_run) == last_run[1] \in {"text", "number", "iso_offset"}

\* C32: a stored last_run that cannot be read as a timestamp counts as
\* never run: the due predicate answers true for it without raising (when
\* the playlist passes the URL, interval and enabled gates), and the tick
\* computes and synchronizes its whole due set.
C32_UnreadableLastRunIsDue ==
    ttick # <<>> =>
        \A i \in 1 .. Len(tplaylists) :
            (/\ Unreadable(tplaylists[i].auto_sync_last_run)
             /\ tplaylists[i].auto_sync_enabled # "False") =>
                /\ ShouldAutoSyncStored(tplaylists[i], tnow) = "True"
                /\ ~ttick[1].raised
                /\ \E k \in 1 .. Len(ttick[1].synchronized) :
                      ttick[1].synchronized[k] = i

(***************************************************************************)
(* start_redis_worker (download_queue.py, lines 217-257) on the tasks of   *)
(* the Redis list, and the counters RedisDownloadQueue.get_status reads    *)
(* (lines 185-195)                                                         *)
(***************************************************************************)

\* The batches (task ids) whose tasks are in the list.
Batches == {1, 2}

\* A task of the list: the batch it belongs to; whether json.loads reads
\* its payload; whether download_func returns or raises; whether
\* json.dumps can write the result (a list of Track objects, as
\* app._download_single_track_from_url returns it, cannot be written).
QueuedTasks ==
    [batch : Batches, decodable : BOOLEAN, downloads : BOOLEAN,
     serializable : BOOLEAN]

\* hincrby(f"task:{id}", field, 1)
HIncrBy(h, id, field) ==
    IF field = "completed"
    THEN [h EXCEPT ![id].completed = @ + 1]
    ELSE [h EXCEPT ![id].failed = @ + 1]

\* The record of a popped task: increments given to its own batch and to
\* another batch.
Handled(task, own, other) == [batch |-> task.batch, own |-> own, other |-> other]

InitRedis ==
    /\ download_queue \in [1 .. NumTasks -> QueuedTasks]
    /\ hashes = [b \in Batches |-> [completed |-> 0, failed |-> 0]]
    /\ task_id = 0
    /\ looping = TRUE
    /\ handled = <<>>
    /\ caller = "app"
    /\ fails = {}
    /\ nextIdx = 0
    /\ enqueuePc = "submit"
    /\ active_task = [total |-> NumEntries, completed |-> 0, failed |-> 0,
                      results |-> {}]
    /\ pc = [e \in Entries |-> "new"]
    /\ tmp = [e \in Entries |-> 0]
    /\ incC = [e \in Entries |-> 0]
    /\ incF = [e \in Entries |-> 0]
    /\ cbCalls = [e \in Entries |-> 0]
    /\ future = [e \in Entries |-> "none"]
    /\ clock = 0
    /\ lock = None
    /\ library = InitialLibrary
    /\ spc = [q \in 0 .. NumManual |-> IF q = 0 THEN "sleep" ELSE "idle"]
    /\ target = [q \in 0 .. NumManual |-> None]
    /\ data = [q \in 0 .. NumManual |-> NoDoc]
    /\ missing = [q \in 0 .. NumManual |-> <<>>]
    /\ errors = [q \in 0 .. NumManual |-> <<>>]
    /\ dueIds = <<>>
    /\ dueIdx = 0
    /\ attempted = <<>>
    /\ tickErrs = {}
    /\ written = [p \in 1 .. NumPlaylists |-> <<>>]
    /\ candidate = IdlePlaylist
    /\ dueNow = 0
    /\ dueAnswer = <<>>
    /\ plib = EmptyLibrary
    /\ plib0 = EmptyLibrary
    /\ remote = <<>>
    /\ ptarget = ""
    /\ ppc = "idle"
    /\ missing_urls = <<>>
    /\ midx = 0
    /\ perrors = <<>>
    /\ added_tracks = <<>>
    /\ listCalls = 0
    /\ ingestCalls = <<>>
    /\ presult = <<>>
    /\ mdata = EmptyLibrary
    /\ mpc = "idle"
    /\ source_url = ""
    /\ track_map = {}
    /\ todo = 0
    /\ lastKind = "none"
    /\ lastDiff = {}
    /\ track_ids = <<>>
    /\ before_ids = <<>>
    /\ given_ids = <<>>
    /\ given_playlist = ""
    /\ apc = "idle"
    /\ disk = EmptyLibrary
    /\ ipc = "idle"
    /\ idata = EmptyLibrary
    /\ iinfos = <<>>
    /\ iplaylist = ""
    /\ loads = 0
    /\ saves = 0
    /\ others = 0
    /\ between = 0
    /\ kind = "none"
    /\ branch = "none"
    /\ backend = "threadpool"
    /\ tool = "ok"
    /\ storing = "ok"
    /\ precheck = "ok"
    /\ listing = 0
    /\ bfails = {}
    /\ gpc = "end"
    /\ wpc = <<>>
    /\ wtmp = <<>>
    /\ completed = 0
    /\ failed = 0
    /\ downloaded_tracks = {}
    /\ stored = {}
    /\ dispatched = 0
    /\ terminals = 0
    /\ trailing = 0
    /\ lastEvent = NoEvent
    /\ escaped = FALSE
    /\ curl = NoLink
    /\ verdict = <<>>
    /\ nshape = "none"
    /\ nid = <<>>
    /\ nurl = <<>>
    /\ nout = <<>>
    /\ uplaylist = <<>>
    /\ upayload = <<>>
    /\ ustatus = "idle"
    /\ rentry = <<>>
    /\ rurls = <<>>
    /\ eop = "none"
    /\ epc = "off"
    /\ edata = NoDoc
    /\ ewhen = <<>>
    /\ tplaylists = <<>>
    /\ tnow = 0
    /\ ttick = <<>>

\* One round of the while loop (lines 231-256) for the task at the head of
\* the list.  json.loads raising leaves task and task_id as they were: the
\* except body then tests `if task`, which raises UnboundLocalError out of
\* the loop when no task was decoded before, and otherwise increments
\* failed of the batch decoded last.  json.dumps raising comes after
\* completed was incremented, and the except body increments failed too.
start_redis_worker ==
    /\ looping
    /\ download_queue # <<>>
    /\ LET task == Head(download_queue) IN
         /\ download_queue' = Tail(download_queue)
         /\ IF ~task.decodable
            THEN IF task_id = 0
                 THEN /\ looping' = FALSE
                      /\ handled' = Append(handled, Handled(task, 0, 0))
                      /\ UNCHANGED <<hashes, task_id>>
                 ELSE /\ hashes' = HIncrBy(hashes, task_id, "failed")
                      /\ handled' = Append(handled,
                            IF task_id = task.batch THEN Handled(task, 1, 0)
                            ELSE Handled(task, 0, 1))
                      /\ UNCHANGED <<task_id, looping>>
            ELSE /\ task_id' = task.batch
                 /\ UNCHANGED looping
                 /\ IF ~task.downloads
                    THEN /\ hashes' = HIncrBy(hashes, task.batch, "failed")
                         /\ handled' = Append(handled, Handled(task, 1, 0))
                    ELSE IF task.serializable
                         THEN /\ hashes' = HIncrBy(hashes, task.batch, "completed")
                              /\ handled' = Append(handled, Handled(task, 1, 0))
                         ELSE /\ hashes' = HIncrBy(HIncrBy(hashes, task.batch, "completed"),
                                                   task.batch, "failed")
                              /\ handled' = Append(handled, Handled(task, 2, 0))
    /\ UNCHANGED exceptRedisVars

NextRedis == start_redis_worker

SpecRedis == InitRedis /\ [][NextRedis]_vars

(***************************************************************************)
(* Claims about the Redis worker (checked under SpecRedis)                 *)
(***************************************************************************)

\* The total of a batch: hset total of enqueue_playlist, the number of its
\* tasks pushed to the list.
TotalOf(b) ==
    Cardinality({k \in 1 .. Len(handled) : handled[k].batch = b})
    + Cardinality({k \in 1 .. Len(download_queue) : download_queue[k].batch = b})

\* C33: for every task the Redis worker has popped, exactly one counter of
\* that task's own batch was incremented, exactly once, and none of
\* another batch; completed + failed <= total holds for every batch; and
\* the worker is still in its loop - also when storing the result or
\* decoding the payload raised.
C33_RedisStatusContract ==
    /\ looping
    /\ \A k \in 1 .. Len(handled) : handled[k].own = 1 /\ handled[k].other = 0
    /\ \A b \in Batches : hashes[b].completed + hashes[b].failed <= TotalOf(b)

(***************************************************************************)
(* Claims about the tracks an ingestion returns (checked under SpecIngest) *)
(***************************************************************************)

\* C34: store_downloaded_tracks returns exactly one Track per input
\* record, in input order, and the id of the Track returned for a record
\* is the id of the library entry that was created or merged for that
\* record: the entry of the record's own id in the document the call
\* writes.
C34_OneTrackPerRecordInOrder ==
    ipc = "merged" =>
        /\ Len(StoredIds(iinfos, <<"list", 0>>)) = Len(iinfos)
        /\ \A k \in 1 .. Len(iinfos) :
              /\ StoredIds(iinfos, <<"list", 0>>)[k] = <<"yt", iinfos[k].id>>
              /\ StoredIds(iinfos, <<"list", 0>>)[k] \in TrackIdsOf(idata.tracks)

\* C34 witness: a call with two records of one new item on a document with
\* one stored track: the first record created an entry, the second was
\* merged into it.
C34_Witness ==
    /\ ipc = "merged"
    /\ Len(iinfos) = 2
    /\ iinfos[1].id = 2
    /\ iinfos[2].id = 2
    /\ Len(disk.tracks) = 1
    /\ Len(idata.tracks) = 2

(***************************************************************************)
(* The workers of one batch writing the document: process_entry            *)
(* (download_queue.py, lines 93-106) calls download_func, which is         *)
(* _download_single_track_from_url (app.py, lines 747-751): the download,  *)
(* then _store_downloaded_tracks and _append_tracks_to_playlist, the       *)
(* StoreLoad .. AppendSave steps of SpecSync.  The pool threads hold no    *)
(* lock.  Worker q downloads the item q into the first playlist.           *)
(***************************************************************************)

\* Every entry of the batch was submitted to the pool (lines 109-111).
InitPool ==
    /\ caller = "app"
    /\ fails = {}
    /\ nextIdx = 0
    /\ enqueuePc = "submit"
    /\ active_task = [total |-> NumEntries, completed |-> 0, failed |-> 0,
                      results |-> {}]
    /\ pc = [e \in Entries |-> "new"]
    /\ tmp = [e \in Entries |-> 0]
    /\ incC = [e \in Entries |-> 0]
    /\ incF = [e \in Entries |-> 0]
    /\ cbCalls = [e \in Entries |-> 0]
    /\ future = [e \in Entries |-> "none"]
    /\ clock = 0
    /\ lock = None
    /\ library = InitialLibrary
    /\ spc = [q \in 0 .. NumManual |-> IF q = 0 THEN "sleep" ELSE "submitted"]
    /\ target = [q \in 0 .. NumManual |-> IF q = 0 THEN None ELSE 1]
    /\ data = [q \in 0 .. NumManual |-> NoDoc]
    /\ missing = [q \in 0 .. NumManual |-> IF q = 0 THEN <<>> ELSE <<q>>]
    /\ errors = [q \in 0 .. NumManual |-> <<>>]
    /\ dueIds = <<>>
    /\ dueIdx = 0
    /\ attempted = <<>>
    /\ tickErrs = {}
    /\ written = [p \in 1 .. NumPlaylists |-> <<>>]
    /\ candidate = IdlePlaylist
    /\ dueNow = 0
    /\ dueAnswer = <<>>
    /\ plib = EmptyLibrary
    /\ plib0 = EmptyLibrary
    /\ remote = <<>>
    /\ ptarget = ""
    /\ ppc = "idle"
    /\ missing_urls = <<>>
    /\ midx = 0
    /\ perrors = <<>>
    /\ added_tracks = <<>>
    /\ listCalls = 0
    /\ ingestCalls = <<>>
    /\ presult = <<>>
    /\ mdata = EmptyLibrary
    /\ mpc = "idle"
    /\ source_url = ""
    /\ track_map = {}
    /\ todo = 0
    /\ lastKind = "none"
    /\ lastDiff = {}
    /\ track_ids = <<>>
    /\ before_ids = <<>>
    /\ given_ids = <<>>
    /\ given_playlist = ""
    /\ apc = "idle"
    /\ disk = EmptyLibrary
    /\ ipc = "idle"
    /\ idata = EmptyLibrary
    /\ iinfos = <<>>
    /\ iplaylist = ""
    /\ loads = 0
    /\ saves = 0
    /\ others = 0
    /\ between = 0
    /\ kind = "none"
    /\ branch = "none"
    /\ backend = "threadpool"
    /\ tool = "ok"
    /\ storing = "ok"
    /\ precheck = "ok"
    /\ listing = 0
    /\ bfails = {}
    /\ gpc = "end"
    /\ wpc = <<>>
    /\ wtmp = <<>>
    /\ completed = 0
    /\ failed = 0
    /\ downloaded_tracks = {}
    /\ stored = {}
    /\ dispatched = 0
    /\ terminals = 0
    /\ trailing = 0
    /\ lastEvent = NoEvent
    /\ escaped = FALSE
    /\ curl = NoLink
    /\ verdict = <<>>
    /\ nshape = "none"
    /\ nid = <<>>
    /\ nurl = <<>>
    /\ nout = <<>>
    /\ uplaylist = <<>>
    /\ upayload = <<>>
    /\ ustatus = "idle"
    /\ rentry = <<>>
    /\ rurls = <<>>
    /\ eop = "none"
    /\ epc = "off"
    /\ edata = NoDoc
    /\ ewhen = <<>>
    /\ tplaylists = <<>>
    /\ tnow = 0
    /\ ttick = <<>>
    /\ download_queue = <<>>
    /\ hashes = <<>>
    /\ task_id = 0
    /\ looping = FALSE
    /\ handled = <<>>

\* _download_with_ytdlp of worker q (app.py, line 749) returns the metadata
\* or raises; a raise is counted as failed by process_entry (lines
\* 102-103).
PoolDownload(q) ==
    /\ spc[q] = "submitted"
    /\ \E downloaded \in BOOLEAN :
         spc' = [spc EXCEPT ![q] = IF downloaded THEN "store_load" ELSE "failed"]
    /\ UNCHANGED <<clock, lock, library, target, data, missing, errors, dueIds,
                   dueIdx, attempted, tickErrs, written>>
    /\ UNCHANGED <<queueVars, dataVars>>

\* download_func has returned (line 94): the entry is counted as completed
\* (line 95).
PoolCompleted(q) ==
    /\ spc[q] = "ingest"
    /\ missing[q] = <<>>
    /\ spc' = [spc EXCEPT ![q] = "completed"]
    /\ UNCHANGED <<clock, lock, library, target, data, missing, errors, dueIds,
                   dueIdx, attempted, tickErrs, written>>
    /\ UNCHANGED <<queueVars, dataVars>>

NextPool ==
    \/ \E q \in ManualThreads : PoolDownload(q)
    \/ \E q \in ManualThreads : StoreLoad(q)
    \/ \E q \in ManualThreads : StoreSave(q)
    \/ \E q \in ManualThreads : AppendLoad(q)
    \/ \E q \in ManualThreads : AppendSave(q)
    \/ \E q \in ManualThreads : PoolCompleted(q)

SpecPool == InitPool /\ [][NextPool]_vars

(***************************************************************************)
(* Claims about the workers of a batch (checked under SpecPool)            *)
(***************************************************************************)

\* C35: after the batch has completed, for every entry counted as
\* completed the track it produced is in the persisted document and its id
\* is in the track_ids of the playlist the batch was given, for every
\* interleaving of the workers.
C35_NoCompletedItemLost ==
    (\A q \in ManualThreads : spc[q] \in {"completed", "failed"}) =>
        \A q \in ManualThreads :
            spc[q] = "completed" =>
                /\ q \in library.tracks
                /\ \E k \in 1 .. Len(library.playlists[1].track_ids) :
                      library.playlists[1].track_ids[k] = q

(***************************************************************************)
(* Two sync passes in a row: _sync_playlist_with_remote called again on    *)
(* the document the first call left, against the same listing              *)
(* (sync_playlist, app.py lines 985-995, asked twice).  The passes are the *)
(* PassLoad .. PassStatus steps of SpecPass.                               *)
(***************************************************************************)

\* The stored entry of item v as a download of the link of item w leaves
\* it: _parse_track_from_info(info, source_url) gives every record of one
\* call the call's own source_url (app.py, line 719), and a link
\* watch?v=w&list=... brings the records of the whole collection.
ImportedTrack(v, w) ==
    [StoredTrack(v) EXCEPT !.source_url = <<"watch", w>>]

\* A document whose playlist "p1" references the entry of item 1 stored
\* with the source URL of item w, an uploaded track and an id without a
\* track.
ImportedLibrary(w) ==
    [PassLibrary(1, "list") EXCEPT !.tracks[1] = ImportedTrack(1, w)]

\* A first call _sync_playlist_with_remote("p1") about to start, on a
\* document and against a listing; everything else is at rest.
InitAgain ==
    /\ plib \in {PassLibrary(k, "list") : k \in 0 .. NumVideos}
                 \cup {ImportedLibrary(w) : w \in Videos}
    /\ plib0 = plib
    /\ remote \in RemoteListings
    /\ ptarget = "p1"
    /\ ppc = "call"
    /\ missing_urls = <<>>
    /\ midx = 0
    /\ perrors = <<>>
    /\ added_tracks = <<>>
    /\ listCalls = 0
    /\ ingestCalls = <<>>
    /\ presult = <<>>
    /\ caller = "app"
    /\ fails = {}
    /\ nextIdx = 0
    /\ enqueuePc = "submit"
    /\ active_task = [total |-> NumEntries, completed |-> 0, failed |-> 0,
                      results |-> {}]
    /\ pc = [e \in Entries |-> "new"]
    /\ tmp = [e \in Entries |-> 0]
    /\ incC = [e \in Entries |-> 0]
    /\ incF = [e \in Entries |-> 0]
    /\ cbCalls = [e \in Entries |-> 0]
    /\ future = [e \in Entries |-> "none"]
    /\ clock = 0
    /\ lock = None
    /\ library = InitialLibrary
    /\ spc = [q \in 0 .. NumManual |-> IF q = 0 THEN "sleep" ELSE "idle"]
    /\ target = [q \in 0 .. NumManual |-> None]
    /\ data = [q \in 0 .. NumManual |-> NoDoc]
    /\ missing = [q \in 0 .. NumManual |-> <<>>]
    /\ errors = [q \in 0 .. NumManual |-> <<>>]
    /\ dueIds = <<>>
    /\ dueIdx = 0
    /\ attempted = <<>>
    /\ tickErrs = {}
    /\ written = [p \in 1 .. NumPlaylists |-> <<>>]
    /\ candidate = IdlePlaylist
    /\ dueNow = 0
    /\ dueAnswer = <<>>
    /\ mdata = EmptyLibrary
    /\ mpc = "idle"
    /\ source_url = ""
    /\ track_map = {}
    /\ todo = 0
    /\ lastKind = "none"
    /\ lastDiff = {}
    /\ track_ids = <<>>
    /\ before_ids = <<>>
    /\ given_ids = <<>>
    /\ given_playlist = ""
    /\ apc = "idle"
    /\ disk = EmptyLibrary
    /\ ipc = "idle"
    /\ idata = EmptyLibrary
    /\ iinfos = <<>>
    /\ iplaylist = ""
    /\ loads = 0
    /\ saves = 0
    /\ others = 0
    /\ between = 0
    /\ kind = "none"
    /\ branch = "none"
    /\ backend = "threadpool"
    /\ tool = "ok"
    /\ storing = "ok"
    /\ precheck = "ok"
    /\ listing = 0
    /\ bfails = {}
    /\ gpc = "end"
    /\ wpc = <<>>
    /\ wtmp = <<>>
    /\ completed = 0
    /\ failed = 0
    /\ downloaded_tracks = {}
    /\ stored = {}
    /\ dispatched = 0
    /\ terminals = 0
    /\ trailing = 0
    /\ lastEvent = NoEvent
    /\ escaped = FALSE
    /\ curl = NoLink
    /\ verdict = <<>>
    /\ nshape = "none"
    /\ nid = <<>>
    /\ nurl = <<>>
    /\ nout = <<>>
    /\ uplaylist = <<>>
    /\ upayload = <<>>
    /\ ustatus = "idle"
    /\ rentry = <<>>
    /\ rurls = <<>>
    /\ eop = "none"
    /\ epc = "off"
    /\ edata = NoDoc
    /\ ewhen = <<>>
    /\ tplaylists = <<>>
    /\ tnow = 0
    /\ ttick = <<>>
    /\ download_queue = <<>>
    /\ hashes = <<>>
    /\ task_id = 0
    /\ looping = FALSE
    /\ handled = <<>>

\* The caller asks for the pass again after the first one has returned:
\* the locals of the new call start empty and the document is the one the
\* first call saved.
PassAgain ==
    /\ ppc = "returned"
    /\ plib0.playlists[1].auto_sync_last_run = None
    /\ ppc' = "call"
    /\ plib0' = plib
    /\ missing_urls' = <<>>
    /\ midx' = 0
    /\ perrors' = <<>>
    /\ added_tracks' = <<>>
    /\ ingestCalls' = <<>>
    /\ presult' = <<>>
    /\ UNCHANGED <<plib, remote, ptarget, listCalls>>
    /\ UNCHANGED <<queueVars, syncVars, dueVars, mergeVars, appendVars, callVars>>

NextAgain ==
    \/ PassLoad
    \/ PassFetch
    \/ PassIngest
    \/ PassStatus
    \/ PassAgain

SpecAgain == InitAgain /\ [][NextAgain]_vars

(***************************************************************************)
(* Claims about two passes in a row (checked under SpecAgain)              *)
(***************************************************************************)

\* The call in progress is the second one, and the first one returned with
\* an empty error list: the document the call started on carries the status
\* the first call wrote (lines 288-291).
SecondAfterCleanPass ==
    /\ plib0.playlists[1].auto_sync_last_run # None
    /\ plib0.playlists[1].auto_sync_last_error = <<>>

\* C37: synchronization converges: a pass that starts right after a pass
\* that returned with an empty error list, against the unchanged listing,
\* ingests nothing and reports missing_count 0, also when an item ingested
\* by the first pass had its id in the document already, stored with
\* another source URL.
C37_SecondPassFindsNothingMissing ==
    SecondAfterCleanPass =>
        /\ ingestCalls = <<>>
        /\ ppc = "returned" => presult[1].missing_count = 0

(***************************************************************************)
(* Claims about the status a scheduler tick leaves (checked under          *)
(* SpecSync)                                                               *)
(***************************************************************************)

\* C38: when a scheduler tick has gone through its due set, every playlist
\* it attempted has auto_sync_last_run set to the time of the tick, so that
\* it is not due again before its interval has elapsed, and every attempt
\* that raised (the remote collection could not be listed) is recorded in
\* auto_sync_last_error.
C38_AttemptUpdatesLastRun ==
    spc[Sched] = "release" =>
        \A k \in 1 .. Len(attempted) :
            /\ library.playlists[attempted[k]].auto_sync_last_run = clock
            /\ ~should_auto_sync_playlist(library.playlists[attempted[k]], clock)
            /\ attempted[k] \in tickErrs =>
                  library.playlists[attempted[k]].auto_sync_last_error # <<>>

(***************************************************************************)
(* Claims about the release of the sync lock (checked under SpecSync)      *)
(***************************************************************************)

\* The places of a thread inside its `with AUTO_SYNC_LOCK:` block.
InsideWith == {"due", "release"} \cup BodyPcs

\* C39: the sync lock is always released and the scheduler loop goes on: a
\* thread holds the lock only inside its `with` block, so that after a
\* scheduler tick and after a manual sync call, returned or raised, the
\* thread no longer holds it; and the scheduler thread is always at a
\* place of its loop, from which its next tick can start.
C39_SyncLockAlwaysReleased ==
    /\ lock \in Threads \cup {None}
    /\ \A q \in Threads : lock = q => spc[q] \in InsideWith
    /\ spc[Sched] \in {"sleep", "check", "acquire"} \cup InsideWith
    /\ \A q \in ManualThreads :
         spc[q] \in {"idle", "acquire", "answered"} \cup InsideWith

\* C39 witness: the first tick is over and no manual sync was ever asked
\* for; the document is as it was, so no pass of the tick wrote its status:
\* every pass of the tick raised, or _run_due_auto_sync did.  The lock is
\* free and the scheduler sleeps before its next tick.
C39_Witness ==
    /\ clock = 1
    /\ spc[Sched] = "sleep"
    /\ \A q \in ManualThreads : spc[q] = "idle"
    /\ library = InitialLibrary
    /\ DueIds(InitialLibrary, 1, 1) # <<>>
    /\ lock = None

====
